---- MODULE Spec2Model ----
(***************************************************************************)
(* Model of the form-analysis pipeline: FieldParser, TableParser,          *)
(* SchemaDetector and QAEngine.  Texts are ASCII strings; the regular      *)
(* expressions of the source are transcribed as item lists and run by a    *)
(* backtracking matcher with Python's match priorities.                    *)
(***************************************************************************)
EXTENDS Integers, Sequences, FiniteSets, TLC

(***************************************************************************)
(* Strings                                                                 *)
(***************************************************************************)
UpperStr == "ABCDEFGHIJKLMNOPQRSTUVWXYZ"
LowerStr == "abcdefghijklmnopqrstuvwxyz"
DigitStr == "0123456789"

CharAt(s, p) == SubSeq(s, p, p)
CharsOf(s) == {CharAt(s, p) : p \in 1..Len(s)}

UpperChars == CharsOf(UpperStr)
LowerChars == CharsOf(LowerStr)
Letters == UpperChars \cup LowerChars
Digits == CharsOf(DigitStr)
\* \s restricted to ASCII
Space == {" ", "\n", "\t", "\r", "\f"}
\* \w restricted to ASCII
WordChars == Letters \cup Digits \cup {"_"}
NL == "\n"

LowerOf == [c \in UpperChars |-> CharAt(LowerStr, CHOOSE p \in 1..26 : CharAt(UpperStr, p) = c)]
DigitVal == [c \in Digits |-> (CHOOSE p \in 1..10 : CharAt(DigitStr, p) = c) - 1]

\* str.lower() of one character
LowerChar(c) == IF c \in UpperChars THEN LowerOf[c] ELSE c

\* the least p in lo..hi with f[p], or hi + 1 when there is none
FirstTrue(f, lo, hi) ==
    IF lo > hi THEN hi + 1
    ELSE CHOOSE p \in lo..(hi + 1) : (p = hi + 1 \/ f[p]) /\ \A q \in lo..(p - 1) : ~f[q]

RECURSIVE FlatSeq(_, _, _)
\* f[lo] \o ... \o f[hi] for sequences
FlatSeq(f, lo, hi) ==
    IF lo > hi THEN <<>>
    ELSE IF lo = hi THEN f[lo]
    ELSE FlatSeq(f, lo, (lo + hi) \div 2) \o FlatSeq(f, (lo + hi) \div 2 + 1, hi)

RECURSIVE FlatStr(_, _, _)
\* f[lo] \o ... \o f[hi] for strings
FlatStr(f, lo, hi) ==
    IF lo > hi THEN ""
    ELSE IF lo = hi THEN f[lo]
    ELSE FlatStr(f, lo, (lo + hi) \div 2) \o FlatStr(f, (lo + hi) \div 2 + 1, hi)

\* str.lower()
ToLower(s) == FlatStr([p \in 1..Len(s) |-> LowerChar(CharAt(s, p))], 1, Len(s))

FoundAt(q, last) == IF q > last THEN -1 ELSE q

\* str.find(sub, start): 0-based offset of the first occurrence at or after p, or -1
FindFrom(s, sub, p) ==
    FoundAt(FirstTrue([x \in 0..Len(s) |-> SubSeq(s, x + 1, x + Len(sub)) = sub], p, Len(s) - Len(sub)),
            Len(s) - Len(sub))

\* sub in s
Contains(s, sub) == \E x \in 1..(Len(s) - Len(sub) + 1) : SubSeq(s, x, x + Len(sub) - 1) = sub

RECURSIVE LStrip(_)
LStrip(s) == IF s # "" /\ Head(s) \in Space THEN LStrip(Tail(s)) ELSE s
RECURSIVE RStrip(_)
RStrip(s) == IF s # "" /\ CharAt(s, Len(s)) \in Space THEN RStrip(SubSeq(s, 1, Len(s) - 1)) ELSE s
\* str.strip()
Strip(s) == LStrip(RStrip(s))

\* end of the run of non-whitespace characters that starts at p
WordEnd(s, p) == FirstTrue([q \in 1..Len(s) |-> CharAt(s, q) \in Space], p, Len(s)) - 1

\* str.split(): the maximal runs of non-whitespace characters
SplitWs(s) ==
    FlatSeq([p \in 1..Len(s) |->
                IF CharAt(s, p) \notin Space /\ (p = 1 \/ CharAt(s, p - 1) \in Space)
                THEN <<SubSeq(s, p, WordEnd(s, p))>> ELSE <<>>], 1, Len(s))

RECURSIVE Join(_, _)
\* sep.join(parts)
Join(sep, parts) ==
    IF parts = <<>> THEN ""
    ELSE IF Len(parts) = 1 THEN parts[1]
    ELSE parts[1] \o sep \o Join(sep, Tail(parts))

\* str.split(sep) for a one-character separator
SplitOn(s, sep) ==
    FlatSeq([p \in 0..Len(s) |->
                IF p = 0 \/ CharAt(s, p) = sep
                THEN <<SubSeq(s, p + 1, FirstTrue([q \in 1..Len(s) |-> CharAt(s, q) = sep], p + 1, Len(s)) - 1)>>
                ELSE <<>>], 0, Len(s))

\* the elements of q at the indices idx
AtIndices(q, idx) == [k \in 1..Len(idx) |-> q[idx[k]]]

\* the sequence without repeated elements, first occurrences kept
Dedupe(q) ==
    AtIndices(q, SelectSeq([j \in 1..Len(q) |-> j], LAMBDA j : \A i \in 1..(j - 1) : q[i] # q[j]))

Range(q) == {q[j] : j \in 1..Len(q)}

Min2(a, b) == IF a < b THEN a ELSE b
Max2(a, b) == IF a > b THEN a ELSE b

(***************************************************************************)
(* Regular expressions: a pattern is a sequence of items; positions are    *)
(* 0..Len(s).  Ends(...) lists the positions where an item can stop, in    *)
(* the order the backtracking matcher tries them.                          *)
(***************************************************************************)
Cls(set, lo, hi) == [k |-> "cls", cs |-> set, neg |-> FALSE, min |-> lo, max |-> hi, unb |-> FALSE, lazy |-> FALSE]
One(set) == Cls(set, 1, 1)
Opt(set) == Cls(set, 0, 1)
Star(set) == [k |-> "cls", cs |-> set, neg |-> FALSE, min |-> 0, max |-> 0, unb |-> TRUE, lazy |-> FALSE]
Plus(set) == [k |-> "cls", cs |-> set, neg |-> FALSE, min |-> 1, max |-> 0, unb |-> TRUE, lazy |-> FALSE]
LazyPlus(set) == [k |-> "cls", cs |-> set, neg |-> FALSE, min |-> 1, max |-> 0, unb |-> TRUE, lazy |-> TRUE]
AtLeast(set, lo) == [k |-> "cls", cs |-> set, neg |-> FALSE, min |-> lo, max |-> 0, unb |-> TRUE, lazy |-> FALSE]
\* . (any character but newline)
DotPlus == [k |-> "cls", cs |-> {NL}, neg |-> TRUE, min |-> 1, max |-> 0, unb |-> TRUE, lazy |-> FALSE]
DotLazyPlus == [k |-> "cls", cs |-> {NL}, neg |-> TRUE, min |-> 1, max |-> 0, unb |-> TRUE, lazy |-> TRUE]
NotOne(set) == [k |-> "cls", cs |-> set, neg |-> TRUE, min |-> 1, max |-> 1, unb |-> FALSE, lazy |-> FALSE]
Lit(str) == [k |-> "lit", s |-> str, ic |-> FALSE]
LitIC(str) == [k |-> "lit", s |-> str, ic |-> TRUE]
\* ( l1 | l2 | ... ) for literals written in lower case, under re.IGNORECASE
LitAlt(strs) == [k |-> "alt", ss |-> strs]
\* ^ and $ under re.MULTILINE, $ without it, \b
Bol == [k |-> "bol"]
Eol == [k |-> "eol"]
EndS == [k |-> "end"]
Wb == [k |-> "wb"]
\* (?<=[set])
Behind(set) == [k |-> "behind", cs |-> set]
\* ( a1 | a2 | ... ){lo,hi}
Grp(alts, lo, hi) == [k |-> "grp", alts |-> alts, min |-> lo, max |-> hi, unb |-> FALSE, lazy |-> FALSE]
GrpStar(alts) == [k |-> "grp", alts |-> alts, min |-> 0, max |-> 0, unb |-> TRUE, lazy |-> FALSE]

InCls(c, n) == IF n.neg THEN c \notin n.cs ELSE c \in n.cs

\* number of consecutive characters of the class from position i, the last one at or before hi
RunTo(s, i, n, hi) ==
    (CHOOSE p \in (i + 1)..(hi + 1) :
        /\ p = hi + 1 \/ ~InCls(CharAt(s, p), n)
        /\ \A q \in (i + 1)..(p - 1) : InCls(CharAt(s, q), n)) - (i + 1)

\* the same, at most cap characters
RunLen(s, i, n, cap) == RunTo(s, i, n, Min2(Len(s), i + cap))

IsWordAt(s, p) == p >= 1 /\ p <= Len(s) /\ CharAt(s, p) \in WordChars

\* the stops of a character class that can take r characters at i: shortest first when lazy
ClsEnds(n, i, r) ==
    IF r < n.min THEN <<>>
    ELSE IF n.lazy THEN [j \in 1..(r - n.min + 1) |-> i + n.min + j - 1]
    ELSE [j \in 1..(r - n.min + 1) |-> i + r - j + 1]

\* the literals of an alternation that are read at i, in the order they are tried
AltHits(n, s, i) == SelectSeq(n.ss, LAMBDA l : i + Len(l) <= Len(s) /\ ToLower(SubSeq(s, i + 1, i + Len(l))) = l)
LitEnds(i, hits) == [j \in 1..Len(hits) |-> i + Len(hits[j])]

RECURSIVE Ends(_, _, _)
RECURSIVE SeqEnds(_, _, _, _)
RECURSIVE SeqEndsOver(_, _, _, _)
RECURSIVE AltEnds(_, _, _)
RECURSIVE RepEnds(_, _, _, _)
RECURSIVE RepEndsOver(_, _, _, _, _)

Ends(n, s, i) ==
    CASE n.k = "cls" -> ClsEnds(n, i, RunLen(s, i, n, IF n.unb THEN Len(s) ELSE n.max))
      [] n.k = "lit" ->
           LET t == SubSeq(s, i + 1, i + Len(n.s))
           IN IF i + Len(n.s) <= Len(s) /\ (IF n.ic THEN ToLower(t) = ToLower(n.s) ELSE t = n.s)
              THEN <<i + Len(n.s)>> ELSE <<>>
      [] n.k = "alt" -> LitEnds(i, AltHits(n, s, i))
      [] n.k = "bol" -> IF i = 0 \/ CharAt(s, i) = NL THEN <<i>> ELSE <<>>
      [] n.k = "eol" -> IF i = Len(s) \/ CharAt(s, i + 1) = NL THEN <<i>> ELSE <<>>
      [] n.k = "end" -> IF i = Len(s) \/ (i = Len(s) - 1 /\ CharAt(s, i + 1) = NL) THEN <<i>> ELSE <<>>
      [] n.k = "wb" -> IF IsWordAt(s, i) # IsWordAt(s, i + 1) THEN <<i>> ELSE <<>>
      [] n.k = "behind" -> IF i >= 1 /\ CharAt(s, i) \in n.cs THEN <<i>> ELSE <<>>
      [] n.k = "grp" -> RepEnds(n, s, i, 0)

\* where items k.. can stop when they start at i
SeqEnds(items, k, s, i) ==
    IF k > Len(items) THEN <<i>>
    ELSE SeqEndsOver(items, k, s, Ends(items[k], s, i))

SeqEndsOver(items, k, s, es) == FlatSeq([j \in 1..Len(es) |-> SeqEnds(items, k + 1, s, es[j])], 1, Len(es))

AltEnds(alts, s, i) == FlatSeq([a \in 1..Len(alts) |-> SeqEnds(alts[a], 1, s, i)], 1, Len(alts))

\* the stops of a group that has gone round cnt times: stopping here against going round once more,
\* lazy stops first, greedy last
RepEnds(n, s, i, cnt) ==
    IF n.unb \/ cnt < n.max
    THEN (IF n.lazy
          THEN (IF cnt >= n.min THEN <<i>> ELSE <<>>) \o RepEndsOver(n, s, i, cnt, AltEnds(n.alts, s, i))
          ELSE RepEndsOver(n, s, i, cnt, AltEnds(n.alts, s, i)) \o (IF cnt >= n.min THEN <<i>> ELSE <<>>))
    ELSE (IF cnt >= n.min THEN <<i>> ELSE <<>>)

RepEndsOver(n, s, i, cnt, es) ==
    FlatSeq([j \in 1..Len(es) |->
                IF es[j] > i \/ cnt < n.min THEN RepEnds(n, s, es[j], cnt + 1) ELSE <<>>], 1, Len(es))

RECURSIVE EndSet(_, _, _)
RECURSIVE SeqEndSet(_, _, _, _)
RECURSIVE RepEndSet(_, _, _, _)
\* the stops of one item as a set, for the questions where the order of trial does not matter
EndSet(n, s, i) ==
    CASE n.k = "cls" -> (i + n.min)..(i + RunLen(s, i, n, IF n.unb THEN Len(s) ELSE n.max))
      [] n.k = "grp" -> RepEndSet(n, s, i, 0)
      [] OTHER -> Range(Ends(n, s, i))

SeqEndSet(items, k, s, i) ==
    IF k > Len(items) THEN {i}
    ELSE UNION {SeqEndSet(items, k + 1, s, e) : e \in EndSet(items[k], s, i)}

AltEndSet(alts, s, i) == UNION {SeqEndSet(alts[a], 1, s, i) : a \in 1..Len(alts)}

RepEndSet(n, s, i, cnt) ==
    (IF cnt >= n.min THEN {i} ELSE {})
    \cup (IF n.unb \/ cnt < n.max
          THEN UNION {RepEndSet(n, s, e, cnt + 1) : e \in {x \in AltEndSet(n.alts, s, i) : x > i \/ cnt < n.min}}
          ELSE {})

RECURSIVE CanMatch(_, _, _, _)
\* items k.. match at position i
CanMatch(items, k, s, i) ==
    k > Len(items) \/ \E e \in EndSet(items[k], s, i) : CanMatch(items, k + 1, s, e)

\* pattern.match(s) is not None
Matches(items, s) == CanMatch(items, 1, s, 0)

\* pattern.search(s) is not None
Found(items, s) == \E p \in 0..Len(s) : CanMatch(items, 1, s, p)

\* the first stop of item k after which the rest of the pattern matches
FirstOk(items, k, s, es) ==
    es[FirstTrue([j \in 1..Len(es) |-> CanMatch(items, k + 1, s, es[j])], 1, Len(es))]

RECURSIVE MatchFrom(_, _, _, _)
\* the stops of items k.. in the match the backtracking matcher finds first, where one exists
MatchFrom(items, k, s, i) ==
    IF k > Len(items) THEN <<>>
    ELSE <<FirstOk(items, k, s, Ends(items[k], s, i))>>
         \o MatchFrom(items, k + 1, s, FirstOk(items, k, s, Ends(items[k], s, i)))

\* pattern.match(s, i): <<>> when there is no match, else <<start, end of item 1, ..., end of item n>>
MatchAt(items, s, i) == IF CanMatch(items, 1, s, i) THEN <<i>> \o MatchFrom(items, 1, s, i) ELSE <<>>

SearchAt(items, s, p) == IF p > Len(s) THEN <<>> ELSE <<p>> \o MatchFrom(items, 1, s, p)

\* pattern.search(s, from)
Search(items, s, from) ==
    SearchAt(items, s, FirstTrue([p \in 0..Len(s) |-> CanMatch(items, 1, s, p)], from, Len(s)))

MStart(m) == m[1]
MEnd(m) == m[Len(m)]
\* match.group(): the text of the whole match
MText(s, m) == SubSeq(s, MStart(m) + 1, MEnd(m))
\* the text matched by item k of the pattern
MItem(s, m, k) == SubSeq(s, m[k] + 1, m[k + 1])
\* match.group(n) for the capture group that spans the items g[1]..g[2]
MGroup(s, m, g) == SubSeq(s, m[g[1]] + 1, m[g[2] + 1])

RECURSIVE FindIter(_, _, _)
RECURSIVE FindIterStep(_, _, _)
\* pattern.finditer(s): the non-overlapping matches, left to right
FindIter(items, s, from) == FindIterStep(items, s, Search(items, s, from))

FindIterStep(items, s, m) ==
    IF m = <<>> THEN <<>>
    ELSE <<m>> \o FindIter(items, s, IF MEnd(m) > MStart(m) THEN MEnd(m) ELSE MEnd(m) + 1)

(***************************************************************************)
(* FieldParser (src/src/processors/field_parser.py)                        *)
(***************************************************************************)
\* a label pattern: its items, and the first and last item of capture groups 1 and 2

\* ^([A-Za-z][A-Za-z0-9\s\-_/()]+?):\s*(.+)$
PatColon ==
    [items |-> <<Bol, One(Letters), LazyPlus(Letters \cup Digits \cup Space \cup {"-", "_", "/", "(", ")"}),
                 Lit(":"), Star(Space), DotPlus, Eol>>, g1 |-> <<2, 3>>, g2 |-> <<6, 6>>]
\* ^([A-Za-z][A-Za-z0-9\s_]+?)\s*[-(en dash)(em dash)]\s*(.+)$
PatDash ==
    [items |-> <<Bol, One(Letters), LazyPlus(Letters \cup Digits \cup Space \cup {"_"}),
                 Star(Space), One({"-"}), Star(Space), DotPlus, Eol>>, g1 |-> <<2, 3>>, g2 |-> <<7, 7>>]
\* ^([A-Za-z][A-Za-z0-9\s_]+?)\s*=\s*(.+)$
PatEquals ==
    [items |-> <<Bol, One(Letters), LazyPlus(Letters \cup Digits \cup Space \cup {"_"}),
                 Star(Space), Lit("="), Star(Space), DotPlus, Eol>>, g1 |-> <<2, 3>>, g2 |-> <<7, 7>>]
\* ^([A-Z][A-Z0-9\s]+):\s*(.+)$
PatCaps ==
    [items |-> <<Bol, One(UpperChars), Plus(UpperChars \cup Digits \cup Space),
                 Lit(":"), Star(Space), DotPlus, Eol>>, g1 |-> <<2, 3>>, g2 |-> <<6, 6>>]
\* ^\d+\.\s*([A-Za-z][A-Za-z0-9\s]+?):\s*(.+)$
PatNumbered ==
    [items |-> <<Bol, Plus(Digits), Lit("."), Star(Space),
                 One(Letters), LazyPlus(Letters \cup Digits \cup Space),
                 Lit(":"), Star(Space), DotPlus, Eol>>, g1 |-> <<5, 6>>, g2 |-> <<9, 9>>]
\* \[([xX(check marks)]|\s)\]\s*(.+)$: group 1 is one character of either class
PatBoxed ==
    [items |-> <<Lit("["), One({"x", "X"} \cup Space), Lit("]"),
                 Star(Space), DotPlus, Eol>>, g1 |-> <<2, 2>>, g2 |-> <<5, 5>>]

\* FieldParser._build_patterns
patterns == <<PatColon, PatDash, PatEquals, PatCaps, PatNumbered, PatBoxed>>

\* pattern.findall(text) for a two-group pattern: the <<group 1, group 2>> pairs
GroupPairs(pat, s, ms) == [j \in 1..Len(ms) |-> <<MGroup(s, ms[j], pat.g1), MGroup(s, ms[j], pat.g2)>>]
FindAll2(pat, s) == GroupPairs(pat, s, FindIter(pat.items, s, 0))

\* FieldParser.__init__: currency_pattern
\* \$[\d,]+(?:\.\d{2})?|\d+(?:,\d{3})*(?:\.\d{2})?\s*(?:USD|EUR|GBP|dollars?)
currency_pattern ==
    << Grp(<< <<Lit("$"), Plus(Digits \cup {","}), Grp(<< <<Lit("."), Cls(Digits, 2, 2)>> >>, 0, 1)>>,
              <<Plus(Digits), GrpStar(<< <<Lit(","), Cls(Digits, 3, 3)>> >>),
                Grp(<< <<Lit("."), Cls(Digits, 2, 2)>> >>, 0, 1), Star(Space),
                Grp(<< <<Lit("USD")>>, <<Lit("EUR")>>, <<Lit("GBP")>>, <<Lit("dollar"), Opt({"s"})>> >>, 1, 1)>> >>, 1, 1) >>
\* [a-zA-Z0-9._%+-]+@[a-zA-Z0-9.-]+\.[a-zA-Z]{2,}
email_pattern ==
    << Plus(Letters \cup Digits \cup {".", "_", "%", "+", "-"}), Lit("@"),
       Plus(Letters \cup Digits \cup {".", "-"}), Lit("."), AtLeast(Letters, 2) >>
\* (?:\+?1[-.\s]?)?\(?\d{3}\)?[-.\s]?\d{3}[-.\s]?\d{4}
phone_pattern ==
    << Grp(<< <<Opt({"+"}), Lit("1"), Opt({"-", "."} \cup Space)>> >>, 0, 1),
       Opt({"("}), Cls(Digits, 3, 3), Opt({")"}), Opt({"-", "."} \cup Space),
       Cls(Digits, 3, 3), Opt({"-", "."} \cup Space), Cls(Digits, 4, 4) >>
\* \d{3}[-\s]?\d{2}[-\s]?\d{4}
ssn_pattern ==
    << Cls(Digits, 3, 3), Opt({"-"} \cup Space), Cls(Digits, 2, 2), Opt({"-"} \cup Space), Cls(Digits, 4, 4) >>

\* (?:Jan|Feb|Mar|Apr|May|Jun|Jul|Aug|Sep|Oct|Nov|Dec) under re.IGNORECASE
MonthAlt == LitAlt(<<"jan", "feb", "mar", "apr", "may", "jun", "jul", "aug", "sep", "oct", "nov", "dec">>)
\* \d{1,2}[/-]\d{1,2}[/-]\d{2,4}
DateMDY == << Cls(Digits, 1, 2), One({"/", "-"}), Cls(Digits, 1, 2), One({"/", "-"}), Cls(Digits, 2, 4) >>
\* \d{4}[/-]\d{1,2}[/-]\d{1,2}
DateYMD == << Cls(Digits, 4, 4), One({"/", "-"}), Cls(Digits, 1, 2), One({"/", "-"}), Cls(Digits, 1, 2) >>
\* (?:Jan|...|Dec)[a-z]*\s+\d{1,2},?\s+\d{4} under re.IGNORECASE
DateMonthDY == << MonthAlt, Star(Letters), Plus(Space), Cls(Digits, 1, 2), Opt({","}), Plus(Space), Cls(Digits, 4, 4) >>
\* \d{1,2}\s+(?:Jan|...|Dec)[a-z]*\s+\d{4} under re.IGNORECASE
DateDMonthY == << Cls(Digits, 1, 2), Plus(Space), MonthAlt, Star(Letters), Plus(Space), Cls(Digits, 4, 4) >>
\* FieldParser._build_date_patterns
date_patterns == <<DateMDY, DateYMD, DateMonthDY, DateDMonthY>>

\* pattern.findall(text) for a pattern without groups: the matched texts
MatchTexts(s, ms) == [j \in 1..Len(ms) |-> MText(s, ms[j])]
FindAll0(items, s) == MatchTexts(s, FindIter(items, s, 0))

(***************************************************************************)
(* Numbers: a float is m * 10^e, written [m, e] with m not a multiple of   *)
(* ten unless it is 0; sp is "inf" or "nan" for the non-finite values.     *)
(***************************************************************************)
RECURSIVE IntOfDigits(_, _)
\* the number written by the digits of s (underscores skipped), acc the value read so far
IntOfDigits(s, acc) ==
    IF s = "" THEN acc
    ELSE IF Head(s) \in Digits THEN IntOfDigits(Tail(s), 10 * acc + DigitVal[Head(s)])
    ELSE IntOfDigits(Tail(s), acc)

\* str.isdigit() on ASCII text
IsDigit(s) == s # "" /\ \A p \in 1..Len(s) : CharAt(s, p) \in Digits

\* a digit part of a numeric literal: digits, single underscores allowed between them
DigitPart(s) ==
    /\ s # ""
    /\ Head(s) \in Digits
    /\ CharAt(s, Len(s)) \in Digits
    /\ \A p \in 1..Len(s) : CharAt(s, p) \in Digits \cup {"_"}
    /\ \A p \in 1..(Len(s) - 1) : ~(CharAt(s, p) = "_" /\ CharAt(s, p + 1) = "_")

RECURSIVE Pow10(_)
Pow10(n) == IF n <= 0 THEN 1 ELSE 10 * Pow10(n - 1)

RECURSIVE NormFloat(_, _)
NormFloat(m, e) ==
    IF m = 0 THEN [m |-> 0, e |-> 0, sp |-> ""]
    ELSE IF m % 10 = 0 THEN NormFloat(m \div 10, e + 1)
    ELSE [m |-> m, e |-> e, sp |-> ""]

Unsigned(s) == IF s # "" /\ Head(s) \in {"+", "-"} THEN Tail(s) ELSE s
SignOf(s) == IF s # "" /\ Head(s) = "-" THEN -1 ELSE 1

\* float(s): [ok |-> FALSE] stands for ValueError
PyFloat(s0) ==
    LET s == Strip(s0)
        u == Unsigned(s)
        lu == ToLower(u)
        ePos == Min2(IF FindFrom(lu, "e", 0) < 0 THEN Len(u) ELSE FindFrom(lu, "e", 0), Len(u))
        mant == SubSeq(u, 1, ePos)
        hasExp == ePos < Len(u)
        expS == SubSeq(u, ePos + 2, Len(u))
        dot == FindFrom(mant, ".", 0)
        ip == IF dot < 0 THEN mant ELSE SubSeq(mant, 1, dot)
        fp == IF dot < 0 THEN "" ELSE SubSeq(mant, dot + 2, Len(mant))
        mantOk == /\ (ip = "" \/ DigitPart(ip))
                  /\ (fp = "" \/ DigitPart(fp))
                  /\ (ip # "" \/ fp # "")
        expOk == ~hasExp \/ DigitPart(Unsigned(expS))
        nFrac == Cardinality({p \in 1..Len(fp) : CharAt(fp, p) \in Digits})
        expV == IF hasExp THEN SignOf(expS) * IntOfDigits(Unsigned(expS), 0) ELSE 0
    IN IF lu \in {"inf", "infinity"} THEN [ok |-> TRUE, v |-> [m |-> SignOf(s), e |-> 0, sp |-> "inf"]]
       ELSE IF lu = "nan" THEN [ok |-> TRUE, v |-> [m |-> 0, e |-> 0, sp |-> "nan"]]
       ELSE IF mantOk /\ expOk
            THEN [ok |-> TRUE, v |-> NormFloat(SignOf(s) * IntOfDigits(ip \o fp, 0), expV - nFrac)]
       ELSE [ok |-> FALSE]

\* s with the characters of the set removed (str.replace(c, '') / re.sub('[set]', '', s))
Remove(s, set) == FlatStr([p \in 1..Len(s) |-> IF CharAt(s, p) \in set THEN "" ELSE CharAt(s, p)], 1, Len(s))

\* re.sub('[^set]', '', s)
Keep(s, set) == FlatStr([p \in 1..Len(s) |-> IF CharAt(s, p) \in set THEN CharAt(s, p) ELSE ""], 1, Len(s))

(***************************************************************************)
(* Field values and the field dictionary (insertion-ordered, as dict)      *)
(***************************************************************************)
ZeroNum == [m |-> 0, e |-> 0, sp |-> ""]
VStr(str) == [type |-> "str", s |-> str, num |-> ZeroNum, b |-> FALSE, items |-> <<>>]
\* {'type': 'currency', 'value': v, 'raw': raw}
VCurrency(v, raw) == [type |-> "currency", s |-> raw, num |-> v, b |-> FALSE, items |-> <<>>]
\* {'type': 'date', 'value': str}
VDate(str) == [type |-> "date", s |-> str, num |-> ZeroNum, b |-> FALSE, items |-> <<>>]
VBool(b) == [type |-> "bool", s |-> "", num |-> ZeroNum, b |-> b, items |-> <<>>]
VInt(n) == [type |-> "int", s |-> "", num |-> NormFloat(n, 0), b |-> FALSE, items |-> <<>>]
VFloat(v) == [type |-> "float", s |-> "", num |-> v, b |-> FALSE, items |-> <<>>]
VList(items) == [type |-> "list", s |-> "", num |-> ZeroNum, b |-> FALSE, items |-> items]
\* an exception leaving the function
VRaise == [type |-> "raise", s |-> "ValueError", num |-> ZeroNum, b |-> FALSE, items |-> <<>>]

HasKey(d, k) == \E j \in 1..Len(d) : d[j].name = k
\* d.setdefault(k, v): an entry already there keeps its value
DictPut_KeepFirst(d, k, v) ==
    IF HasKey(d, k) THEN d ELSE Append(d, [name |-> k, value |-> v])

\* d[k] = v
DictPut(d, k, v) ==
    IF HasKey(d, k)
    THEN [j \in 1..Len(d) |-> IF d[j].name = k THEN [name |-> k, value |-> v] ELSE d[j]]
    ELSE Append(d, [name |-> k, value |-> v])
DictGet(d, k) == d[CHOOSE j \in 1..Len(d) : d[j].name = k].value
\* index of the last entry of e named k
LastOf(e, k) == CHOOSE j \in 1..Len(e) : e[j].name = k /\ \A i \in (j + 1)..Len(e) : e[i].name # k
\* the dictionary left by assigning the entries e in order, from the indices of the first assignment of each key
AssignFrom(e, idx) == [n \in 1..Len(idx) |-> [name |-> e[idx[n]].name, value |-> e[LastOf(e, e[idx[n]].name)].value]]
\* fields[k] = v for every entry of e in order: a key stays where it was first put and keeps its last value
AssignAll(e) ==
    AssignFrom(e, SelectSeq([j \in 1..Len(e) |-> j], LAMBDA j : \A i \in 1..(j - 1) : e[i].name # e[j].name))
\* d.update(e)
DictUpdate(d, e) == AssignAll(d \o e)
Keys(d) == {d[j].name : j \in 1..Len(d)}

\* FieldParser.parse: values longer than this are skipped
MaxValueLen == 500
\* FieldParser.parse: names too generic to be fields
GenericNames == {"a", "b", "c", "i", "ii", "iii", "the", "and", "or"}
\* FieldParser._extract_special_fields: characters of context read before a date
DateContextLen == 50
\* FieldParser._extract_checkboxes: items of this length or more are dropped
MaxItemLen == 100

\* _normalize_field_name without the whitespace handling
NormalizeFieldName_Raw(name) == name

\* FieldParser._normalize_field_name
NormalizeFieldName(name) == Strip(Join(" ", SplitWs(name)))

\* float(numeric) inside try/except ValueError of the currency branch
CurrencyOf(value) == PyFloat(Keep(value, Digits \cup {"."}))

MatchesAnyDate(value) == \E j \in 1..Len(date_patterns) : Matches(date_patterns[j], value)

FloatValue(f) == IF f.ok THEN VFloat(f.v) ELSE VRaise

\* the number branch of _process_value: the conversion attempted, if any
NumberOf(value) ==
    IF Contains(value, ".") THEN FloatValue(PyFloat(Remove(value, {","})))
    ELSE IF IsDigit(value) \/ (value # "" /\ Head(value) = "-" /\ IsDigit(Tail(value)))
         THEN VInt(SignOf(value) * IntOfDigits(Remove(value, {","}), 0))
    ELSE VStr(value)

\* except ValueError: pass, then return value
NumberOrText(value, n) == IF n.type = "raise" THEN VStr(value) ELSE n

\* _process_value after the currency branch
ProcessRest(value) ==
    IF MatchesAnyDate(value) THEN VDate(value)
    ELSE IF ToLower(value) \in {"yes", "no", "true", "false", "y", "n"}
         THEN VBool(ToLower(value) \in {"yes", "true", "y"})
    ELSE NumberOrText(value, NumberOf(value))

\* the currency branch without its try/except: the ValueError of float(numeric) leaves the function
ProcessCurrency_Raises(value, cur) ==
    IF Matches(currency_pattern, value) THEN (IF cur.ok THEN VCurrency(cur.v, value) ELSE VRaise)
    ELSE ProcessRest(value)

\* the currency branch: cur is float(numeric), not ok when it raised ValueError
ProcessCurrency(value, cur) ==
    IF Matches(currency_pattern, value) /\ cur.ok THEN VCurrency(cur.v, value)
    ELSE ProcessRest(value)

\* FieldParser._process_value
ProcessValue(value) == ProcessCurrency(Strip(value), CurrencyOf(Strip(value)))

RECURSIVE IntStr(_)
\* str(n) for n >= 0
IntStr(n) == IF n < 10 THEN CharAt(DigitStr, n + 1) ELSE IntStr(n \div 10) \o CharAt(DigitStr, (n % 10) + 1)

\* the last n characters, s[-n:]
LastN(s, n) == SubSeq(s, Max2(1, Len(s) - n + 1), Len(s))

\* the fields named base, or base 1, base 2, ... when several were found
Numbered(base, found) ==
    IF Len(found) = 1 THEN <<[name |-> base, value |-> VStr(found[1])]>>
    ELSE [j \in 1..Len(found) |-> [name |-> base \o " " \o IntStr(j), value |-> VStr(found[j])]]

\* the masked form of a matched SSN
MaskSSN(ssn) == "XXX-XX-" \o LastN(ssn, 4)

SSNFields(ssns) ==
    [j \in 1..Len(ssns) |->
        [name |-> IF Len(ssns) = 1 THEN "SSN" ELSE "SSN " \o IntStr(j), value |-> VStr(MaskSSN(ssns[j]))]]

\* ([A-Za-z]+(?:\s+[A-Za-z]+)?)\s*[:\-]?\s*$
LabelBeforeDate ==
    [items |-> << Plus(Letters), Grp(<< <<Plus(Space), Plus(Letters)>> >>, 0, 1),
                  Star(Space), Opt({":", "-"}), Star(Space), EndS >>, g1 |-> <<1, 2>>]

\* the context read before a date match m: text[max(0, start - 50):start].strip()
DateContext(s, m) == Strip(SubSeq(s, Max2(0, MStart(m) - DateContextLen) + 1, MStart(m)))

\* the field of one date: lm is the label match in the context, date the date text
DateField(context, lm, date) ==
    IF lm # <<>> /\ ToLower(Strip(MGroup(context, lm, LabelBeforeDate.g1))) \notin {"on", "of", "the", "at", "by"}
    THEN <<[name |-> Strip(MGroup(context, lm, LabelBeforeDate.g1)) \o " Date", value |-> VStr(date)]>>
    ELSE <<>>

\* the '<label> Date' fields of the matches ms of one date pattern
DateFieldsOf(s, ms) ==
    FlatSeq([j \in 1..Len(ms) |->
                DateField(DateContext(s, ms[j]), Search(LabelBeforeDate.items, DateContext(s, ms[j]), 0), MText(s, ms[j]))],
            1, Len(ms))

\* the date fields of all the date patterns, in the order they are assigned
DateFields(s) ==
    FlatSeq([p \in 1..Len(date_patterns) |-> DateFieldsOf(s, FindIter(date_patterns[p], s, 0))],
            1, Len(date_patterns))

\* FieldParser._extract_special_fields
ExtractSpecialFields(s) ==
    AssignAll(Numbered("Email", FindAll0(email_pattern, s)) \o Numbered("Phone", FindAll0(phone_pattern, s))
              \o SSNFields(FindAll0(ssn_pattern, s)) \o DateFields(s))

\* (?:\n|$)
LineEnd == Grp(<< <<Lit(NL)>>, <<EndS>> >>, 1, 1)
\* FieldParser._extract_checkboxes: checkbox_patterns; item is the group holding the label.
\* The two ballot-box patterns start with a non-ASCII character and match no ASCII text.
checkbox_patterns ==
    << [items |-> <<Lit("["), One({"x", "X"}), Lit("]"), Star(Space), DotLazyPlus, LineEnd>>, item |-> 5, checked |-> TRUE],
       [items |-> <<Lit("["), Star(Space), Lit("]"), Star(Space), DotLazyPlus, LineEnd>>, item |-> 5, checked |-> FALSE],
       [items |-> <<One({}), Star(Space), DotLazyPlus, LineEnd>>, item |-> 3, checked |-> TRUE],
       [items |-> <<One({}), Star(Space), DotLazyPlus, LineEnd>>, item |-> 3, checked |-> FALSE],
       [items |-> <<Lit("("), One({"x", "X"}), Lit(")"), Star(Space), DotLazyPlus, LineEnd>>, item |-> 5, checked |-> TRUE],
       [items |-> <<Lit("("), Star(Space), Lit(")"), Star(Space), DotLazyPlus, LineEnd>>, item |-> 5, checked |-> FALSE] >>

\* the stripped labels of the matches ms
StrippedItems(s, ms, item) == [j \in 1..Len(ms) |-> Strip(MItem(s, ms[j], item))]
\* if item and len(item) < 100
GoodItems(its) == SelectSeq(its, LAMBDA it : it # "" /\ Len(it) < MaxItemLen)

RECURSIVE CheckboxItems(_, _, _)
\* the labels collected from the patterns p.. whose flag is checked
CheckboxItems(s, p, checked) ==
    IF p > Len(checkbox_patterns) THEN <<>>
    ELSE (IF checkbox_patterns[p].checked = checked
          THEN GoodItems(StrippedItems(s, FindIter(checkbox_patterns[p].items, s, 0), checkbox_patterns[p].item))
          ELSE <<>>) \o CheckboxItems(s, p + 1, checked)

OptionsField(name, items) == IF items # <<>> THEN <<[name |-> name, value |-> VList(items)]>> ELSE <<>>

\* FieldParser._extract_checkboxes
ExtractCheckboxes(s) ==
    OptionsField("Selected Options", CheckboxItems(s, 1, TRUE))
        \o OptionsField("Unselected Options", CheckboxItems(s, 1, FALSE))

\* the result of a call: the dictionary returned, or raised = TRUE when an exception left it
Returned(d) == [raised |-> FALSE, fields |-> d]
Raised == [raised |-> TRUE, fields |-> <<>>]

\* fields[name] = processed_value, unless _process_value raised
StoreField(r, name, processed_value) ==
    IF processed_value.type = "raise" THEN Raised ELSE Returned(DictPut(r.fields, name, processed_value))

\* the body of the loop over the matches: one match with its normalized name and stripped value
ApplyMatch(r, name, value) ==
    IF Len(value) > MaxValueLen THEN r
    ELSE IF ToLower(name) \in GenericNames THEN r
    ELSE IF name # "" /\ value # "" THEN StoreField(r, name, ProcessValue(value))
    ELSE r

RECURSIVE ApplyMatches(_, _)
\* the loop over the matches of one pattern (r is the result so far)
ApplyMatches(r, ms) ==
    IF ms = <<>> \/ r.raised THEN r
    ELSE ApplyMatches(ApplyMatch(r, NormalizeFieldName(Head(ms)[1]), Strip(Head(ms)[2])), Tail(ms))

RECURSIVE ApplyPatterns(_, _, _)
ApplyPatterns(r, s, p) ==
    IF p > Len(patterns) \/ r.raised THEN r
    ELSE ApplyPatterns(ApplyMatches(r, FindAll2(patterns[p], s)), s, p + 1)

\* FieldParser.parse
\* the two updates after the pattern loop
AddExtracted(r, s) ==
    IF r.raised THEN r
    ELSE Returned(AssignAll(r.fields \o ExtractSpecialFields(s) \o ExtractCheckboxes(s)))

Parse(s) ==
    IF s = "" THEN Returned(<<>>)
    ELSE AddExtracted(ApplyPatterns(Returned(<<>>), s, 1), s)

\* FieldParser._calculate_confidence, in tenths
CommonFieldWords ==
    {"name", "date", "address", "phone", "email", "ssn", "dob",
     "number", "amount", "total", "id", "signature", "account"}
CalculateConfidence(name, value) ==
    LET c0 == 5
        c1 == IF 2 < Len(name) /\ Len(name) < 50 THEN c0 + 1 ELSE c0
        c2 == IF 1 < Len(value) /\ Len(value) < 200 THEN c1 + 1 ELSE c1
        c3 == IF \E cf \in CommonFieldWords : Contains(ToLower(name), cf) THEN c2 + 2 ELSE c2
        c4 == IF Len(value) > 200 THEN c3 - 2 ELSE c3
    IN Min2(10, Max2(0, c4))

RECURSIVE InsertDesc(_, _)
\* x placed after the elements of the sorted q whose confidence is not lower (stable sort, reverse=True)
InsertDesc(q, x) ==
    IF q = <<>> THEN <<x>>
    ELSE IF Head(q).confidence >= x.confidence THEN <<Head(q)>> \o InsertDesc(Tail(q), x)
    ELSE <<x>> \o q
RECURSIVE SortDesc(_)
\* sorted(q, key=confidence, reverse=True)
SortDesc(q) == IF q = <<>> THEN <<>> ELSE InsertDesc(SortDesc(SubSeq(q, 1, Len(q) - 1)), q[Len(q)])

\* FieldParser.parse_with_confidence: results at or below this many tenths are dropped
MinFieldConfidence == 3

FieldMatch(name, value, m) ==
    [name |-> name, value |-> value, confidence |-> CalculateConfidence(name, value),
     position |-> <<MStart(m), MEnd(m)>>]

\* the FieldMatch of every match of one pattern
FieldMatches(pat, s, ms) ==
    [j \in 1..Len(ms) |->
        FieldMatch(NormalizeFieldName(MGroup(s, ms[j], pat.g1)), Strip(MGroup(s, ms[j], pat.g2)), ms[j])]

RECURSIVE ConfidenceMatches(_, _)
ConfidenceMatches(s, p) ==
    IF p > Len(patterns) THEN <<>>
    ELSE SelectSeq(FieldMatches(patterns[p], s, FindIter(patterns[p].items, s, 0)),
                   LAMBDA m : m.confidence > MinFieldConfidence)
         \o ConfidenceMatches(s, p + 1)

\* FieldParser.parse_with_confidence
ParseWithConfidence(s) == SortDesc(ConfidenceMatches(s, 1))

(***************************************************************************)
(* Ratios: the quotients of small counts that the heuristics compare are   *)
(* kept as exact fractions n/d with d > 0.                                 *)
(***************************************************************************)
Rat(n, d) == [n |-> n, d |-> d]
RatLess(a, b) == a.n * b.d < b.n * a.d
RatLeq(a, b) == a.n * b.d <= b.n * a.d
RatAdd(a, b) == Rat(a.n * b.d + b.n * a.d, a.d * b.d)
RatSub(a, b) == Rat(a.n * b.d - b.n * a.d, a.d * b.d)
RatMul(a, b) == Rat(a.n * b.n, a.d * b.d)
RatMin(a, b) == IF RatLess(b, a) THEN b ELSE a
RatMax(a, b) == IF RatLess(a, b) THEN b ELSE a

RECURSIVE RatSum(_)
\* sum(q) of a list of ratios
RatSum(q) == IF q = <<>> THEN Rat(0, 1) ELSE RatAdd(Head(q), RatSum(Tail(q)))

(***************************************************************************)
(* TableParser                                                             *)
(***************************************************************************)
\* the characters _is_numeric removes before float(): [\$,%\s] (the texts are ASCII)
NumericFormatting == {"$", ",", "%"} \cup Space

\* _is_numeric(value)
IsNumeric(value) == value # "" /\ PyFloat(Remove(value, NumericFormatting)).ok

\* max(len(row) for row in table)
MaxCols(table) == CHOOSE n \in {Len(table[r]) : r \in 1..Len(table)} : \A r \in 1..Len(table) : Len(table[r]) <= n

\* str(cell).strip() if cell else ""
CleanCell(cell) == IF cell # "" THEN Strip(cell) ELSE ""

\* a cleaned row without the padding loop
NormalizeRow_NoPad(row, max_cols) == [c \in 1..Len(row) |-> CleanCell(row[c])]

\* the cleaned row, "" appended while it is shorter than max_cols
NormalizeRow(row, max_cols) ==
    [c \in 1..Max2(Len(row), max_cols) |-> IF c <= Len(row) THEN CleanCell(row[c]) ELSE ""]

\* _normalize_table(table)
NormalizeTable(table) ==
    IF table = <<>> THEN <<>>
    ELSE [r \in 1..Len(table) |-> NormalizeRow(table[r], MaxCols(table))]

common_headers ==
    <<"name", "date", "amount", "total", "description", "id", "number",
      "quantity", "price", "item", "type", "status", "value", "count">>

\* sum(1 for cell in row if cell and not _is_numeric(cell)) / max(1, len(row))
TextRatio(row) ==
    Rat(Cardinality({c \in 1..Len(row) : row[c] # "" /\ ~IsNumeric(row[c])}), Max2(1, Len(row)))

\* sum(1 for cell in row if _is_numeric(cell)) / max(1, len(row))
NumericRatio(row) ==
    Rat(Cardinality({c \in 1..Len(row) : IsNumeric(row[c])}), Max2(1, Len(row)))

\* some cell of the row holds a common header word
HasCommonHeader(row) ==
    \E c \in 1..Len(row) :
        row[c] # "" /\ \E h \in 1..Len(common_headers) : Contains(ToLower(row[c]), common_headers[h])

\* sum(other_rows_numeric) / len(other_rows_numeric), over table[1:]
AvgNumeric(table) ==
    RatMul(RatSum([r \in 1..(Len(table) - 1) |-> NumericRatio(table[r + 1])]), Rat(1, Len(table) - 1))

\* the four signals of _detect_headers, in the order the code tests them
HeaderSignals(table) ==
    << RatLess(Rat(1, 2), TextRatio(table[1])),
       RatLess(TextRatio(table[1]), NumericRatio(table[2])),
       HasCommonHeader(table[1]),
       Len(table) > 2 /\ RatLess(NumericRatio(table[1]), RatSub(AvgNumeric(table), Rat(1, 5))) >>

\* header_score
HeaderScore(table) == Cardinality({j \in 1..4 : HeaderSignals(table)[j]})

\* _detect_headers(table): (has_header, headers)
DetectHeaders(table) ==
    IF Len(table) < 2 THEN [has_header |-> FALSE, headers |-> <<>>]
    ELSE IF HeaderScore(table) >= 2 THEN [has_header |-> TRUE, headers |-> table[1]]
    ELSE [has_header |-> FALSE, headers |-> <<>>]

\* any(h in ' '.join(header_lower) for h in words)
HeadersMention(headers, words) ==
    \E w \in words : Contains(Join(" ", [c \in 1..Len(headers) |-> ToLower(headers[c])]), w)

\* _infer_table_type(headers, rows)
InferTableType(headers, rows) ==
    IF HeadersMention(headers, {"amount", "total", "price", "cost", "balance"}) THEN "financial"
    ELSE IF HeadersMention(headers, {"name", "email", "phone", "address"}) THEN "contact"
    ELSE IF HeadersMention(headers, {"date", "time", "schedule", "due"}) THEN "schedule"
    ELSE IF HeadersMention(headers, {"item", "quantity", "stock", "product"}) THEN "inventory"
    ELSE "general"

\* [f"Column {i+1}" for i in range(n)], numbered from zero
ColumnNames_FromZero(n) == [i \in 1..n |-> "Column " \o IntStr(i - 1)]

\* [f"Column {i+1}" for i in range(n)]
ColumnNames(n) == [i \in 1..n |-> "Column " \o IntStr(i)]

ParsedTable(headers, rows, has_header) ==
    [headers |-> headers, rows |-> rows, column_count |-> Len(headers), row_count |-> Len(rows),
     has_header |-> has_header, table_type |-> InferTableType(headers, rows)]

\* the body of the loop of parse for a normalized table
ParseNormalized(normalized, dh) ==
    IF dh.has_header THEN ParsedTable(dh.headers, Tail(normalized), TRUE)
    ELSE ParsedTable(ColumnNames(Len(normalized[1])), normalized, FALSE)

\* what one raw table adds to the list parse returns: nothing for an empty table
ParseRawTable(raw_table) ==
    IF raw_table = <<>> THEN <<>>
    ELSE <<ParseNormalized(NormalizeTable(raw_table), DetectHeaders(NormalizeTable(raw_table)))>>

\* parse(raw_tables)
TableParse(tabs) == FlatSeq([k \in 1..Len(tabs) |-> ParseRawTable(tabs[k])], 1, Len(tabs))

(***************************************************************************)
(* str() of a field value, as the f-strings and str(v) of the source give  *)
(***************************************************************************)
Zeros(n) == FlatStr([i \in 1..n |-> "0"], 1, n)

\* the escape repr() writes for a character inside quotes q
ReprChar(c, q) ==
    CASE c = "\\" -> "\\\\"
      [] c = q -> "\\" \o q
      [] c = "\n" -> "\\n"
      [] c = "\r" -> "\\r"
      [] c = "\t" -> "\\t"
      [] c = "\f" -> "\\x0c"
      [] OTHER -> c

PyReprQuoted(s, q) == q \o FlatStr([p \in 1..Len(s) |-> ReprChar(CharAt(s, p), q)], 1, Len(s)) \o q

\* repr(s) of a str: double quotes only when s has a single quote and no double quote
PyRepr(s) == PyReprQuoted(s, IF Contains(s, "'") /\ ~Contains(s, "\"") THEN "\"" ELSE "'")

\* str(n) of the int m * 10^e
IntText(v) == (IF v.m < 0 THEN "-" ELSE "") \o IntStr(IF v.m < 0 THEN -v.m ELSE v.m) \o Zeros(v.e)

\* the digits ds of a positive float with the decimal point after the first pt of them
FloatDigits(ds, pt) ==
    IF pt > 16 \/ pt < -3
    THEN SubSeq(ds, 1, 1) \o (IF Len(ds) > 1 THEN "." \o SubSeq(ds, 2, Len(ds)) ELSE "")
         \o (IF pt > 0 THEN "e+" ELSE "e-")
         \o (IF pt - 1 < 10 /\ 1 - pt < 10 THEN "0" ELSE "") \o IntStr(IF pt > 0 THEN pt - 1 ELSE 1 - pt)
    ELSE IF pt >= Len(ds) THEN ds \o Zeros(pt - Len(ds)) \o ".0"
    ELSE IF pt > 0 THEN SubSeq(ds, 1, pt) \o "." \o SubSeq(ds, pt + 1, Len(ds))
    ELSE "0." \o Zeros(-pt) \o ds

\* repr(x) of a float
FloatText(v) ==
    IF v.sp = "inf" THEN (IF v.m < 0 THEN "-inf" ELSE "inf")
    ELSE IF v.sp = "nan" THEN "nan"
    ELSE IF v.m = 0 THEN "0.0"
    ELSE (IF v.m < 0 THEN "-" ELSE "")
         \o FloatDigits(IntStr(IF v.m < 0 THEN -v.m ELSE v.m), Len(IntStr(IF v.m < 0 THEN -v.m ELSE v.m)) + v.e)

\* str(value) of a field value
PyStr(v) ==
    CASE v.type = "str" -> v.s
      [] v.type = "bool" -> IF v.b THEN "True" ELSE "False"
      [] v.type = "int" -> IntText(v.num)
      [] v.type = "float" -> FloatText(v.num)
      [] v.type = "date" -> "{'type': 'date', 'value': " \o PyRepr(v.s) \o "}"
      [] v.type = "currency" ->
           "{'type': 'currency', 'value': " \o FloatText(v.num) \o ", 'raw': " \o PyRepr(v.s) \o "}"
      [] v.type = "list" -> "[" \o Join(", ", [j \in 1..Len(v.items) |-> PyRepr(v.items[j])]) \o "]"

(***************************************************************************)
(* SchemaDetector                                                          *)
(***************************************************************************)
Schema(type, category, required, indicators) ==
    [type |-> type, category |-> category, required_indicators |-> required, indicators |-> indicators]

\* _build_schema_definitions(), in the order the dictionary is iterated
schemas ==
    << Schema("w2", "tax", 2,
          <<"wage and tax statement", "w-2", "form w-2", "employer identification number", "ein",
            "employee's social security", "federal income tax withheld",
            "social security wages", "medicare wages">>),
       Schema("w4", "tax", 2,
          <<"employee's withholding", "w-4", "form w-4", "withholding allowance",
            "personal allowances", "additional amount to withhold">>),
       Schema("1099", "tax", 2,
          <<"1099", "form 1099", "miscellaneous income", "nonemployee compensation",
            "payer's federal", "rents", "royalties", "other income">>),
       Schema("1040", "tax", 2,
          <<"1040", "form 1040", "u.s. individual income tax", "adjusted gross income",
            "taxable income", "filing status", "standard deduction", "tax return">>),
       Schema("insurance_claim", "medical", 3,
          <<"insurance claim", "claim form", "cms-1500", "hcfa", "diagnosis code", "icd", "cpt",
            "procedure code", "date of service", "provider", "patient information",
            "policyholder", "group number", "member id">>),
       Schema("medical_intake", "medical", 3,
          <<"patient intake", "medical history", "health history", "allergies", "medications",
            "emergency contact", "primary care physician", "insurance information",
            "chief complaint", "symptoms", "family history">>),
       Schema("hipaa_authorization", "medical", 3,
          <<"hipaa", "authorization", "protected health information", "phi",
            "release of information", "health information", "disclose", "privacy">>),
       Schema("job_application", "employment", 3,
          <<"employment application", "job application", "applicant", "position applied",
            "work experience", "previous employer", "references", "education history",
            "equal opportunity", "availability", "desired salary">>),
       Schema("i9", "employment", 3,
          <<"i-9", "form i-9", "employment eligibility", "verification", "citizenship status",
            "work authorization", "list a", "list b", "list c", "uscis">>),
       Schema("onboarding", "employment", 3,
          <<"new hire", "onboarding", "employee information", "start date", "department",
            "manager", "direct deposit", "emergency contact", "benefits enrollment">>),
       Schema("loan_application", "financial", 3,
          <<"loan application", "credit application", "borrower", "loan amount", "interest rate",
            "collateral", "monthly payment", "debt-to-income", "credit score", "assets",
            "liabilities", "loan purpose">>),
       Schema("bank_account", "financial", 3,
          <<"account opening", "new account", "account application", "checking", "savings",
            "routing number", "account number", "joint account", "beneficiary",
            "initial deposit">>),
       Schema("contract", "legal", 3,
          <<"agreement", "contract", "parties", "terms and conditions", "whereas", "hereby",
            "binding", "effective date", "termination", "governing law", "jurisdiction",
            "indemnification", "liability">>),
       Schema("power_of_attorney", "legal", 3,
          <<"power of attorney", "attorney-in-fact", "principal", "agent", "authority", "durable",
            "revocation", "notarized", "witness">>),
       Schema("dmv", "government", 3,
          <<"dmv", "driver license", "vehicle registration", "title", "vin", "license plate",
            "odometer", "registration fee", "department of motor vehicles">>),
       Schema("passport", "government", 3,
          <<"passport", "citizenship", "place of birth", "passport number", "nationality",
            "travel document", "department of state", "ds-11", "ds-82">>),
       Schema("school_application", "education", 3,
          <<"admission", "application", "enrollment", "student", "gpa", "transcript", "academic",
            "school", "grade level", "program", "degree", "major">>),
       Schema("financial_aid", "education", 3,
          <<"fafsa", "financial aid", "student aid", "grant", "scholarship", "loan", "efc",
            "expected family contribution", "award letter", "disbursement">>) >>

\* ' '.join(str(k) + ' ' + str(v) for k, v in fields.items())
FieldText(fields) == Join(" ", [j \in 1..Len(fields) |-> fields[j].name \o " " \o PyStr(fields[j].value)])

\* text_lower, with the fields added when there are any
SearchText(txt, fields) ==
    IF fields # <<>> THEN ToLower(txt) \o " " \o ToLower(FieldText(fields)) ELSE ToLower(txt)

\* matched_indicators of one schema
MatchedIndicators(def, text_lower) == SelectSeq(def.indicators, LAMBDA ind : Contains(text_lower, ind))

\* len(matched_indicators) / len(schema_def['indicators'])
Score(def, matched) == Rat(Len(matched), Len(def.indicators))

\* min(1.0, score * 1.2)
Boosted(score) == RatMin(Rat(1, 1), RatMul(score, Rat(6, 5)))

SchemaMatch(def, matched) ==
    [schema_type |-> def.type, confidence |-> Boosted(Score(def, matched)),
     matched_indicators |-> matched, category |-> def.category]

\* best_match = None, best_score = 0
NoBest == [some |-> FALSE, score |-> Rat(0, 1), match |-> <<>>]

\* score >= best_score
Replaces_OrEqual(score, best_score) == RatLeq(best_score, score)

\* score > best_score
Replaces(score, best_score) == RatLess(best_score, score)

\* one turn of the loop of detect_with_confidence
Consider(def, matched, best) ==
    IF Len(matched) >= def.required_indicators /\ Replaces(Score(def, matched), best.score)
    THEN [some |-> TRUE, score |-> Score(def, matched), match |-> SchemaMatch(def, matched)]
    ELSE best

RECURSIVE BestUpTo(_, _)
\* best_match and best_score after the first k schemas
BestUpTo(text_lower, k) ==
    IF k = 0 THEN NoBest
    ELSE Consider(schemas[k], MatchedIndicators(schemas[k], text_lower), BestUpTo(text_lower, k - 1))

\* detect_with_confidence(text, fields): some is FALSE for None
DetectWithConfidence(txt, fields) ==
    IF txt = "" THEN NoBest ELSE BestUpTo(SearchText(txt, fields), Len(schemas))

\* match.confidence > 0.5
MeetsFloor_Strict(confidence) == RatLess(Rat(1, 2), confidence)

\* match.confidence >= 0.5
MeetsFloor(confidence) == RatLeq(Rat(1, 2), confidence)

\* match.schema_type if match and match.confidence >= 0.5 else None
TypeOf(best) ==
    IF best.some /\ MeetsFloor(best.match.confidence)
    THEN [some |-> TRUE, schema_type |-> best.match.schema_type]
    ELSE [some |-> FALSE, schema_type |-> ""]

\* detect(text, fields)
Detect(txt, fields) == TypeOf(DetectWithConfidence(txt, fields))

\* if len(matched_indicators) >= required_indicators
Listed_Required(def, matched) == Len(matched) >= def.required_indicators

\* if matched_indicators
Listed(def, matched) == matched # <<>>

\* what one schema appends to matches
MatchEntry(def, matched) == IF Listed(def, matched) THEN <<SchemaMatch(def, matched)>> ELSE <<>>

\* sorted(q, key=lambda x: x.confidence, reverse=True): q[j] goes after the entries
\* of higher confidence and the earlier entries of the same confidence
RankDesc(q, j) ==
    Cardinality({i \in 1..Len(q) : RatLess(q[j].confidence, q[i].confidence)})
    + Cardinality({i \in 1..j : ~RatLess(q[j].confidence, q[i].confidence) /\ ~RatLess(q[i].confidence, q[j].confidence)})
SortedByConfidence(q) == [p \in 1..Len(q) |-> q[CHOOSE j \in 1..Len(q) : RankDesc(q, j) = p]]

\* matches, before sorting
AllMatches(text_lower) ==
    FlatSeq([k \in 1..Len(schemas) |-> MatchEntry(schemas[k], MatchedIndicators(schemas[k], text_lower))],
            1, Len(schemas))

\* detect_all_matches(text, fields)
DetectAllMatches(txt, fields) ==
    IF txt = "" THEN <<>> ELSE SortedByConfidence(AllMatches(SearchText(txt, fields)))

(***************************************************************************)
(* QAEngine (src/src/qa/qa_engine.py)                                      *)
(***************************************************************************)
\* q[:n]
Take(q, n) == IF n >= 0 THEN SubSeq(q, 1, Min2(n, Len(q))) ELSE SubSeq(q, 1, Max2(0, Len(q) + n))

\* end of the run of characters satisfying In that starts at p
RunEnd(s, p, In(_)) ==
    CHOOSE q \in p..Len(s) :
        /\ q = Len(s) \/ ~In(CharAt(s, q + 1))
        /\ \A r \in p..q : In(CharAt(s, r))

\* the maximal runs of characters satisfying In, left to right
RunsOf(s, In(_)) ==
    FlatSeq([p \in 1..Len(s) |->
                IF In(CharAt(s, p)) /\ (p = 1 \/ ~In(CharAt(s, p - 1)))
                THEN <<SubSeq(s, p, RunEnd(s, p, In))>> ELSE <<>>], 1, Len(s))

\* set(re.findall(r'\b\w{n,}\b', s)): the maximal runs of word characters that have n or more of them
Terms(s, n) == {w \in Range(RunsOf(s, LAMBDA c : c \in WordChars)) : Len(w) >= n}

RECURSIVE SplitStr(_, _)
\* str.split(sep)
SplitStr(s, sep) ==
    IF FindFrom(s, sep, 0) < 0 THEN <<s>>
    ELSE <<SubSeq(s, 1, FindFrom(s, sep, 0))>>
         \o SplitStr(SubSeq(s, FindFrom(s, sep, 0) + Len(sep) + 1, Len(s)), sep)

\* any(w in s for w in words)
AnyIn(words, s) == \E w \in words : Contains(s, w)

\* the elements of q that satisfy Test, up to the first one: the loops that return at their first hit
FirstWhere(q, Test(_)) == Take(SelectSeq(q, Test), 1)

FormDocument(file_path, raw_text, fields, tables, schema_type, confidence) ==
    [file_path |-> file_path, raw_text |-> raw_text, fields |-> fields, tables |-> tables,
     schema_type |-> schema_type, extraction_confidence |-> confidence]

\* QAEngine.__init__ with the default configuration
NewEngine == [embedder |-> "None", use_embeddings |-> TRUE, top_k |-> 5]

\* _calculate_relevance: stop_words
stop_words ==
    {"the", "a", "an", "is", "are", "was", "were", "what", "who", "where", "when", "how", "which",
     "this", "that", "of", "in", "on", "for", "to", "from", "with", "by"}

\* _calculate_relevance: max(field_overlap, value_overlap * 0.5)
RelevanceOf(question_terms, field_terms, value_terms) ==
    RatMax(Rat(Cardinality(question_terms \cap field_terms), Max2(1, Cardinality(question_terms))),
           RatMul(Rat(Cardinality(question_terms \cap value_terms), Max2(1, Cardinality(question_terms))),
                  Rat(1, 2)))

\* QAEngine._calculate_relevance(question, field, value)
CalculateRelevance(question, field, value) ==
    RelevanceOf(Terms(question, 1) \ stop_words, Terms(field, 1), Terms(value, 1))

\* f"{field}: {value}"
FieldLine(f) == f.name \o ": " \o PyStr(f.value)

\* _retrieve_context: the fields whose relevance is above 0.3
RelevantFields(question_lower, fields) ==
    SelectSeq(fields, LAMBDA f : RatLess(Rat(3, 10),
                                         CalculateRelevance(question_lower, ToLower(f.name), ToLower(PyStr(f.value)))))

\* QAEngine._lazy_load_embedder: load is what importing sentence_transformers and building the model does
\* ("ok", "ImportError", or any other exception, which is not caught)
LazyLoadEmbedder(engine, load) ==
    IF engine.embedder # "None" THEN [raised |-> FALSE, engine |-> engine]
    ELSE IF load = "ok" THEN [raised |-> FALSE, engine |-> [engine EXCEPT !.embedder = "model"]]
    ELSE IF load = "ImportError" THEN [raised |-> FALSE, engine |-> [engine EXCEPT !.use_embeddings = FALSE]]
    ELSE [raised |-> TRUE, engine |-> engine]

\* _semantic_search: the paragraphs of the text that are not blank, stripped
StrippedParagraphs(paras) == SelectSeq([j \in 1..Len(paras) |-> Strip(paras[j])], LAMBDA p : p # "")

\* _semantic_search: chunks
SemanticChunks(document) ==
    [j \in 1..Len(document.fields) |-> FieldLine(document.fields[j])]
    \o StrippedParagraphs(SplitStr(document.raw_text, "\n\n"))

\* _semantic_search: the indices of the chunks returned, for n chunks that the model rates as rating says:
\* rating.best tells which end of the chunk list it finds most similar to the question (the similarities
\* fall towards the other end), rating.above how many chunks it rates above 0.3.  The top_k most similar
\* are kept, most similar first (all of them when top_k is 0, as [-0:] is the whole list), and of these
\* the ones above 0.3.  No chunk above 0.3 also stands for a missing numpy and for an exception of the model.
TopIndices(n, rating, top_k) ==
    [j \in 1..Min2(rating.above, IF top_k = 0 THEN n ELSE Min2(top_k, n)) |->
        IF rating.best = "first" THEN j ELSE n + 1 - j]

\* _semantic_search: the chunks the model rates above 0.3 among the top_k most similar
TopChunks(chunks, rating, top_k) == AtIndices(chunks, TopIndices(Len(chunks), rating, top_k))

\* _semantic_search: after the embedder was asked for
SearchWith(document, top_k, rating, loaded) ==
    [raised |-> loaded.raised, engine |-> loaded.engine,
     chunks |-> IF loaded.raised \/ loaded.engine.embedder = "None" THEN <<>>
                ELSE TopChunks(SemanticChunks(document), rating, top_k)]

\* QAEngine._semantic_search(question, document)
SemanticSearch(document, engine, load, rating) ==
    SearchWith(document, engine.top_k, rating, LazyLoadEmbedder(engine, load))

\* re.split(r'[.!?\n]+', text) without its empty pieces, which the length test drops
Sentences(s) == RunsOf(s, LAMBDA c : c \notin {".", "!", "?", NL})

\* _extract_relevant_snippets: the first three sentences of 10 to 500 characters that share two terms
\* with the question
SnippetsAmong(question_terms, sentences) ==
    Take(SelectSeq([j \in 1..Len(sentences) |-> Strip(sentences[j])],
                   LAMBDA sentence :
                       /\ Len(sentence) >= 10
                       /\ Len(sentence) <= 500
                       /\ Cardinality(question_terms \cap Terms(ToLower(sentence), 3)) >= 2), 3)

\* QAEngine._extract_relevant_snippets(question, text)
ExtractRelevantSnippets(question, txt) ==
    IF txt = "" THEN <<>> ELSE SnippetsAmong(Terms(ToLower(question), 3), Sentences(txt))

\* _retrieve_context: the context and the source fields, from the relevant fields and the semantic chunks
ContextOf(question, document, top_k, relevant, additional) ==
    [raised |-> additional.raised,
     engine |-> additional.engine,
     context |-> Join(NL, Take([j \in 1..Len(relevant) |-> FieldLine(relevant[j])] \o additional.chunks
                               \o ExtractRelevantSnippets(question, document.raw_text), top_k)),
     source_fields |-> [j \in 1..Len(relevant) |-> relevant[j].name]]

\* _retrieve_context: the semantic search is made when fewer than three fields are relevant
ContextFrom(question, document, engine, load, rating, relevant) ==
    ContextOf(question, document, engine.top_k, relevant,
              IF engine.use_embeddings /\ Len(relevant) < 3
              THEN SemanticSearch(document, engine, load, rating)
              ELSE [raised |-> FALSE, engine |-> engine, chunks |-> <<>>])

\* _retrieve_context with the semantic search made in every call
RetrieveContext_AlwaysSearch(question, document, engine, load, rating) ==
    ContextOf(question, document, engine.top_k, RelevantFields(ToLower(question), document.fields),
              SemanticSearch(document, engine, load, rating))

\* QAEngine._retrieve_context(question, document)
RetrieveContext(question, document, engine, load, rating) ==
    ContextFrom(question, document, engine, load, rating, RelevantFields(ToLower(question), document.fields))

\* what a handler returns, with the handler that produced it
Answered(intent, answer, confidence) == [intent |-> intent, answer |-> answer, confidence |-> confidence]

\* f"The {field} is: {value}"
FieldAnswer(f) == "The " \o f.name \o " is: " \o PyStr(f.value)

\* f"Based on the form: {context[:200]}", 0.5
FallbackAnswer(intent, context) == Answered(intent, "Based on the form: " \o Take(context, 200), Rat(5, 10))

\* the fields of the document argument, which has none when it is a list of documents
FieldsOf(document) == IF document.has_fields THEN document.fields ELSE <<>>

\* lead (?:the )?(.+?)(?:\?|$)
WhatPattern(lead) == <<Lit(lead), Grp(<< <<Lit("the ")>> >>, 0, 1), DotLazyPlus, Grp(<< <<Lit("?")>>, <<EndS>> >>, 1, 1)>>

\* _answer_what_question: patterns
what_patterns == <<WhatPattern("what is "), WhatPattern("what's "), WhatPattern("what are ")>>

\* _answer_what_question: the first pattern found in the question, 0 when there is none
FirstWhatPattern(question) ==
    IF \E k \in 1..Len(what_patterns) : Found(what_patterns[k], question)
    THEN CHOOSE k \in 1..Len(what_patterns) :
             /\ Found(what_patterns[k], question)
             /\ \A j \in 1..(k - 1) : ~Found(what_patterns[j], question)
    ELSE 0

\* match.group(1).strip() for the k-th pattern
SubjectBy(question, k) ==
    IF k = 0 THEN "" ELSE Strip(MItem(question, Search(what_patterns[k], question, 0), 3))

\* _answer_what_question: subject, "" when it is None or empty
Subject(question) == SubjectBy(question, FirstWhatPattern(question))

\* the lookup without its second test: only a field whose name holds the subject
NamedBy_OneWay(subject, flds) ==
    IF subject = "" THEN <<>>
    ELSE FirstWhere(flds, LAMBDA f : Contains(ToLower(f.name), subject))

\* _answer_what_question: the first field whose name holds the subject or is held by it
NamedBy(subject, flds) ==
    IF subject = "" THEN <<>>
    ELSE FirstWhere(flds, LAMBDA f : Contains(ToLower(f.name), subject) \/ Contains(subject, ToLower(f.name)))

\* _answer_what_question: that field, else the first context line with a colon, else the context
WhatAnswer(context, named, lines) ==
    IF named # <<>> THEN Answered("what", FieldAnswer(named[1]), Rat(9, 10))
    ELSE IF lines # <<>> THEN Answered("what", Strip(lines[1]), Rat(7, 10))
    ELSE Answered("what", Take(context, 200), Rat(5, 10))

\* QAEngine._answer_what_question(question, context, document)
AnswerWhat(question, context, document) ==
    WhatAnswer(context, NamedBy(Subject(question), FieldsOf(document)),
               FirstWhere(SplitOn(context, NL), LAMBDA line : Contains(line, ":")))

\* \$?[\d,]+(?:\.\d{2})?
number_pattern == << Opt({"$"}), Plus(Digits \cup {","}), Grp(<< <<Lit("."), Cls(Digits, 2, 2)>> >>, 0, 1) >>

\* a < b for finite floats
FloatLess(a, b) == a.m * Pow10(a.e - Min2(a.e, b.e)) < b.m * Pow10(b.e - Min2(a.e, b.e))

\* max(q): the first of the largest
MaxFloat(q) ==
    q[CHOOSE j \in 1..Len(q) : /\ \A i \in 1..Len(q) : ~FloatLess(q[j], q[i])
                               /\ \A i \in 1..(j - 1) : FloatLess(q[i], q[j])]

RECURSIVE Thousands(_)
\* f"{n:,}" for an int n >= 0
Thousands(n) ==
    IF n < 1000 THEN IntStr(n) ELSE Thousands(n \div 1000) \o "," \o LastN("00" \o IntStr(n % 1000), 3)

\* f"{v:,.2f}" for a float v >= 0 that is a whole number of cents
Money(v) ==
    Thousands((v.m * Pow10(v.e + 2)) \div 100) \o "." \o LastN("0" \o IntStr((v.m * Pow10(v.e + 2)) % 100), 2)

\* _answer_quantity_question: the floats that parsed
FloatValues(floats) == [j \in 1..Len(floats) |-> floats[j].v]

\* _answer_quantity_question: parsed_numbers
ParsedNumbers(numbers) ==
    FloatValues(SelectSeq([j \in 1..Len(numbers) |-> PyFloat(Remove(numbers[j], {"$", ","}))], LAMBDA f : f.ok))

\* _answer_quantity_question: the line with the total, else the largest number, else the fallback
QuantityAnswer(context, numbers, totals, parsed_numbers) ==
    IF numbers # <<>> /\ totals # <<>> THEN Answered("quantity", Strip(totals[1]), Rat(85, 100))
    ELSE IF numbers # <<>> /\ parsed_numbers # <<>>
    THEN Answered("quantity", "The amount is: $" \o Money(MaxFloat(parsed_numbers)), Rat(7, 10))
    ELSE FallbackAnswer("quantity", context)

\* _answer_quantity_question: the numbers of the context and the first line with "total"
QuantityFrom(question, context, numbers) ==
    QuantityAnswer(context, numbers,
                   IF Contains(question, "total")
                   THEN FirstWhere(SplitOn(context, NL), LAMBDA line : Contains(ToLower(line), "total"))
                   ELSE <<>>,
                   ParsedNumbers(numbers))

\* QAEngine._answer_quantity_question(question, context, document)
AnswerQuantity(question, context, document) ==
    QuantityFrom(question, context, FindAll0(number_pattern, context))

\* a field, else a context line, else the fallback
NamedAnswer(intent, context, named, lines) ==
    IF named # <<>> THEN Answered(intent, FieldAnswer(named[1]), Rat(9, 10))
    ELSE IF lines # <<>> THEN Answered(intent, Strip(lines[1]), Rat(7, 10))
    ELSE FallbackAnswer(intent, context)

\* the shape shared by _answer_who_question and _answer_where_question: the first field whose name
\* has one of the words, else the first context line that has one, else the fallback
AnswerNamed(intent, words, context, document) ==
    NamedAnswer(intent, context,
                FirstWhere(FieldsOf(document), LAMBDA f : AnyIn(words, ToLower(f.name))),
                FirstWhere(SplitOn(context, NL), LAMBDA line : AnyIn(words, ToLower(line))))

\* _answer_who_question: name_patterns
name_patterns == {"name", "applicant", "employee", "patient", "customer", "client"}

\* QAEngine._answer_who_question(question, context, document)
AnswerWho(question, context, document) == AnswerNamed("who", name_patterns, context, document)

\* _answer_when_question: date_patterns, searched under re.IGNORECASE
when_patterns == <<DateMDY, DateYMD, DateMonthDY>>

\* _answer_when_question: the first date pattern found in the context, 0 when there is none
FirstDatePattern(context) ==
    IF \E k \in 1..Len(when_patterns) : Found(when_patterns[k], context)
    THEN CHOOSE k \in 1..Len(when_patterns) :
             /\ Found(when_patterns[k], context)
             /\ \A j \in 1..(k - 1) : ~Found(when_patterns[j], context)
    ELSE 0

\* _answer_when_question: the date found in the context, else the first field named as a date, else
\* the fallback
WhenAnswer(context, k, dated) ==
    IF k > 0
    THEN Answered("when", "The date is: " \o MText(context, Search(when_patterns[k], context, 0)), Rat(8, 10))
    ELSE IF dated # <<>> THEN Answered("when", FieldAnswer(dated[1]), Rat(9, 10))
    ELSE FallbackAnswer("when", context)

\* QAEngine._answer_when_question(question, context, document)
AnswerWhen(question, context, document) ==
    WhenAnswer(context, FirstDatePattern(context),
               FirstWhere(FieldsOf(document), LAMBDA f : Contains(ToLower(f.name), "date")))

\* _answer_where_question: location_patterns
location_patterns == {"address", "location", "city", "state", "zip", "street"}

\* QAEngine._answer_where_question(question, context, document)
AnswerWhere(question, context, document) == AnswerNamed("where", location_patterns, context, document)

\* _generate_answer: the default answer
GenericAnswer(context) == Answered("generic", "Based on the form: " \o Take(context, 300) \o "...", Rat(6, 10))

\* _generate_answer with the tests for what and quantity questions exchanged
Dispatch_QuantityFirst(question_lower, context, document) ==
    IF AnyIn({"how much", "how many", "total", "sum", "amount"}, question_lower)
    THEN AnswerQuantity(question_lower, context, document)
    ELSE IF AnyIn({"what is", "what's", "what are"}, question_lower)
    THEN AnswerWhat(question_lower, context, document)
    ELSE IF AnyIn({"who", "whose"}, question_lower) THEN AnswerWho(question_lower, context, document)
    ELSE IF AnyIn({"when", "date"}, question_lower) THEN AnswerWhen(question_lower, context, document)
    ELSE IF AnyIn({"where", "address", "location"}, question_lower)
    THEN AnswerWhere(question_lower, context, document)
    ELSE GenericAnswer(context)

\* _generate_answer, for a context that is not empty: the question types in the order they are tested
Dispatch(question_lower, context, document) ==
    IF AnyIn({"what is", "what's", "what are"}, question_lower)
    THEN AnswerWhat(question_lower, context, document)
    ELSE IF AnyIn({"how much", "how many", "total", "sum", "amount"}, question_lower)
    THEN AnswerQuantity(question_lower, context, document)
    ELSE IF AnyIn({"who", "whose"}, question_lower) THEN AnswerWho(question_lower, context, document)
    ELSE IF AnyIn({"when", "date"}, question_lower) THEN AnswerWhen(question_lower, context, document)
    ELSE IF AnyIn({"where", "address", "location"}, question_lower)
    THEN AnswerWhere(question_lower, context, document)
    ELSE GenericAnswer(context)

\* the answer _generate_answer gives when there is no context
NoContext == Answered("none", "I couldn't find relevant information to answer this question.", Rat(0, 1))

\* _generate_answer without the test for an empty context
GenerateAnswer_NoEmptyTest(question, context, document) == Dispatch(ToLower(question), context, document)

\* QAEngine._generate_answer(question, context, document)
GenerateAnswer(question, context, document) ==
    IF context = "" THEN NoContext ELSE Dispatch(ToLower(question), context, document)

QueryResult(question, generated, source_fields, context) ==
    [raised |-> FALSE, question |-> question, intent |-> generated.intent, answer |-> generated.answer,
     confidence |-> generated.confidence, source_fields |-> source_fields, context |-> context]

\* an exception left the call
QueryRaised(question) ==
    [raised |-> TRUE, question |-> question, intent |-> "none", answer |-> "", confidence |-> Rat(0, 1),
     source_fields |-> <<>>, context |-> ""]

\* answer: the QueryResult built from the retrieved context
AnswerFrom(question, document, retrieved) ==
    [engine |-> retrieved.engine,
     result |-> IF retrieved.raised THEN QueryRaised(question)
                ELSE QueryResult(question,
                                 GenerateAnswer(question, retrieved.context,
                                                [has_fields |-> TRUE, fields |-> document.fields]),
                                 retrieved.source_fields, Take(retrieved.context, 500))]

\* QAEngine.answer(question, document): the result and the engine it leaves
Answer(question, document, engine, load, rating) ==
    AnswerFrom(question, document, RetrieveContext(question, document, engine, load, rating))

RECURSIVE RetrieveAll(_, _, _, _, _), RetrieveRest(_, _, _, _, _)
\* answer_multiple: what a document with a context adds to those of the documents after it
WithContext(doc, first, rest) ==
    [raised |-> rest.raised, engine |-> rest.engine,
     all_contexts |->
         (IF first.context # "" THEN <<"[" \o doc.file_path \o "]: " \o first.context>> ELSE <<>>)
         \o rest.all_contexts,
     all_source_fields |-> (IF first.context # "" THEN first.source_fields ELSE <<>>) \o rest.all_source_fields]

\* answer_multiple: the loop over the documents
RetrieveAll(question, documents, engine, load, rating) ==
    IF documents = <<>>
    THEN [raised |-> FALSE, engine |-> engine, all_contexts |-> <<>>, all_source_fields |-> <<>>]
    ELSE RetrieveRest(question, documents, load, rating,
                      RetrieveContext(question, Head(documents), engine, load, rating))

\* answer_multiple: the loop after the context of the first document
RetrieveRest(question, documents, load, rating, first) ==
    IF first.raised
    THEN [raised |-> TRUE, engine |-> first.engine, all_contexts |-> <<>>, all_source_fields |-> <<>>]
    ELSE WithContext(Head(documents), first, RetrieveAll(question, Tail(documents), first.engine, load, rating))

\* answer_multiple: the QueryResult built from the combined context
AnswerCombined(question, retrieved, combined_context) ==
    [engine |-> retrieved.engine,
     result |-> IF retrieved.raised THEN QueryRaised(question)
                ELSE QueryResult(question,
                                 GenerateAnswer(question, combined_context, [has_fields |-> FALSE, fields |-> <<>>]),
                                 Range(retrieved.all_source_fields), Take(combined_context, 1000))]

\* answer_multiple: the contexts joined
AnswerAll(question, retrieved) == AnswerCombined(question, retrieved, Join("\n\n", retrieved.all_contexts))

\* answer_multiple with the first document, when there is one, handed to the handlers
AnswerMultiple_OfFirst(question, documents, engine, load, rating) ==
    IF documents = <<>> THEN AnswerAll(question, RetrieveAll(question, documents, engine, load, rating))
    ELSE Answer(question, documents[1], engine, load, rating)

\* QAEngine.answer_multiple(question, documents); source_fields is list(set(...)), whose order is that
\* of the set's iteration, so the result keeps the set
AnswerMultiple(question, documents, engine, load, rating) ==
    AnswerAll(question, RetrieveAll(question, documents, engine, load, rating))

(***************************************************************************)
(* QAEngine.cross_form_analysis (src/src/qa/qa_engine.py)                  *)
(***************************************************************************)
\* the keys of all_fields, in the order the documents add them
AllFieldNames(documents) ==
    Dedupe(FlatSeq([d \in 1..Len(documents) |->
                       [j \in 1..Len(documents[d].fields) |-> documents[d].fields[j].name]],
                   1, Len(documents)))

\* all_fields[field]: one entry for every document that has the field
FieldEntries(documents, field) ==
    FlatSeq([d \in 1..Len(documents) |->
                IF HasKey(documents[d].fields, field)
                THEN <<[value |-> DictGet(documents[d].fields, field), source |-> documents[d].file_path]>>
                ELSE <<>>], 1, Len(documents))

\* the fields of the first document, whatever the others have
CommonFields_OfFirst(documents) ==
    SelectSeq(AllFieldNames(documents), LAMBDA f : documents # <<>> /\ HasKey(documents[1].fields, f))

\* cross_form_analysis: common_fields
CommonFields(documents) ==
    SelectSeq(AllFieldNames(documents), LAMBDA f : Len(FieldEntries(documents, f)) = Len(documents))

\* float(val['value']) inside try/except (ValueError, TypeError)
FloatOfEntry(f) == IF f.ok THEN <<f.v>> ELSE <<>>

\* what a value adds to numeric_values: an int, a float or a bool (which is an int) adds itself, a
\* dict with a 'value' adds float(val['value']) if that does not raise
NumericValues(val) ==
    CASE val.type \in {"int", "float"} -> <<val.num>>
      [] val.type = "bool" -> <<NormFloat(IF val.b THEN 1 ELSE 0, 0)>>
      [] val.type = "currency" -> <<val.num>>
      [] val.type = "date" -> FloatOfEntry(PyFloat(val.s))
      [] OTHER -> <<>>

\* cross_form_analysis: numeric_values of a field
NumericValuesOf(entries) ==
    FlatSeq([j \in 1..Len(entries) |-> NumericValues(entries[j].value)], 1, Len(entries))

\* a + b for floats that hold decimal numbers of few digits, whose sum is exact
FloatAdd(a, b) ==
    NormFloat(a.m * Pow10(a.e - Min2(a.e, b.e)) + b.m * Pow10(b.e - Min2(a.e, b.e)), Min2(a.e, b.e))

RECURSIVE FloatSum(_)
\* sum(q)
FloatSum(q) == IF q = <<>> THEN ZeroNum ELSE FloatAdd(FloatSum(SubSeq(q, 1, Len(q) - 1)), q[Len(q)])

\* the float as a fraction
RatOf(v) == IF v.e >= 0 THEN Rat(v.m * Pow10(v.e), 1) ELSE Rat(v.m, Pow10(-v.e))

\* min(q): the first of the least
MinFloat(q) ==
    q[CHOOSE j \in 1..Len(q) : /\ \A i \in 1..Len(q) : ~FloatLess(q[i], q[j])
                               /\ \A i \in 1..(j - 1) : FloatLess(q[j], q[i])]

\* cross_form_analysis: the entry of field_summary for a field with these numeric values
FieldStats(field, numeric_values) ==
    [name |-> field,
     count |-> Len(numeric_values),
     sum |-> FloatSum(numeric_values),
     average |-> RatMul(RatOf(FloatSum(numeric_values)), Rat(1, Len(numeric_values))),
     min |-> MinFloat(numeric_values),
     max |-> MaxFloat(numeric_values)]

\* the entry of a field, if it has numeric values
StatsIfAny(field, numeric_values) ==
    IF numeric_values # <<>> THEN <<FieldStats(field, numeric_values)>> ELSE <<>>

\* cross_form_analysis: field_summary, in the order of all_fields
FieldSummaryOf(documents, names) ==
    FlatSeq([k \in 1..Len(names) |-> StatsIfAny(names[k], NumericValuesOf(FieldEntries(documents, names[k])))],
            1, Len(names))

FieldSummary(documents) == FieldSummaryOf(documents, AllFieldNames(documents))

\* _generate_insights: unique_schemas
UniqueSchemas(documents) ==
    {documents[d].schema_type.schema_type : d \in {k \in 1..Len(documents) : documents[k].schema_type.some}}

\* _generate_insights: the insight on the types of the forms, whose order of the types is that of a
\* set's iteration, and the one on the common fields
SchemaInsights(documents) ==
    IF UniqueSchemas(documents) # {} THEN <<[about |-> "types", types |-> UniqueSchemas(documents)]>> ELSE <<>>

CommonInsights(common_fields) ==
    IF common_fields # <<>> THEN <<[about |-> "common", names |-> Take(common_fields, 5)]>> ELSE <<>>

\* _generate_insights: the fields with an insight on their average and range
InsightFields(field_summary) ==
    SelectSeq(field_summary,
              LAMBDA stats : stats.count > 1 /\ AnyIn({"salary", "income", "amount"}, ToLower(stats.name)))

\* QAEngine._generate_insights(question, documents, analysis)
GenerateInsights(documents, common_fields, field_summary) ==
    SchemaInsights(documents) \o CommonInsights(common_fields)
    \o [j \in 1..Len(InsightFields(field_summary)) |-> [about |-> "average", stats |-> InsightFields(field_summary)[j]]]

\* cross_form_analysis: the dictionary it returns, given what answer_multiple did
AnalysisOf(documents, common_fields, field_summary, call) ==
    [engine |-> call.engine,
     raised |-> call.result.raised,
     total_documents |-> Len(documents),
     common_fields |-> common_fields,
     schema_types |-> [d \in 1..Len(documents) |-> documents[d].schema_type],
     field_summary |-> field_summary,
     insights |-> GenerateInsights(documents, common_fields, field_summary),
     answer |-> call.result.answer]

\* QAEngine.cross_form_analysis(question, documents)
CrossFormAnalysis(question, documents, engine, load, rating) ==
    AnalysisOf(documents, CommonFields(documents), FieldSummary(documents),
               AnswerMultiple(question, documents, engine, load, rating))

(***************************************************************************)
(* ContextRetriever (src/src/qa/retriever.py)                              *)
(***************************************************************************)
RetrievalResult(chunk, score, source, chunk_type) ==
    [text |-> chunk, score |-> score, source |-> source, chunk_type |-> chunk_type]

\* the score as it is, with no upper limit
AtMostOne_Unlimited(score) == score

\* min(1.0, score)
AtMostOne(score) == RatMin(Rat(1, 1), score)

\* len(query_terms & terms) / max(1, len(query_terms)), with the field name counted weight times
Overlap(query_terms, weight, name_terms, terms) ==
    Rat(weight * Cardinality(query_terms \cap name_terms) + Cardinality(query_terms \cap terms),
        Max2(1, Cardinality(query_terms)))

\* _retrieve_from_fields: score
FieldScore(query_terms, f) ==
    Overlap(query_terms, 2, Terms(ToLower(f.name), 3), Terms(ToLower(PyStr(f.value)), 3))

\* ContextRetriever._retrieve_from_fields(query, fields)
RetrieveFromFields(query, fields) ==
    LET query_terms == Terms(ToLower(query), 3)
        scored == SelectSeq(fields, LAMBDA f : RatLess(Rat(0, 1), FieldScore(query_terms, f)))
    IN [j \in 1..Len(scored) |->
           RetrievalResult(FieldLine(scored[j]), AtMostOne(FieldScore(query_terms, scored[j])),
                           scored[j].name, "field")]

\* _retrieve_from_tables: table_text
TableText(table) == FlatStr([r \in 1..Len(table) |-> Join(" | ", table[r]) \o NL], 1, Len(table))

\* _retrieve_from_tables: the result for the i-th table, if it has one
TableResult(query_terms, table, i) ==
    LET score == Overlap(query_terms, 0, {}, Terms(ToLower(TableText(table)), 3))
    IN IF table # <<>> /\ RatLess(Rat(1, 10), score)
       THEN <<RetrievalResult(Take(TableText(table), 500), AtMostOne(score), "Table " \o IntStr(i), "table")>>
       ELSE <<>>

\* ContextRetriever._retrieve_from_tables(query, tables)
RetrieveFromTables(query, tabs) ==
    FlatSeq([i \in 1..Len(tabs) |-> TableResult(Terms(ToLower(query), 3), tabs[i], i)], 1, Len(tabs))

\* re.split(pattern, s) for a pattern without groups that matches no empty text
SplitAt(s, ms) ==
    [j \in 1..(Len(ms) + 1) |->
        SubSeq(s, (IF j = 1 THEN 0 ELSE MEnd(ms[j - 1])) + 1, IF j > Len(ms) THEN Len(s) ELSE MStart(ms[j]))]
ReSplit(items, s) == SplitAt(s, FindIter(items, s, 0))

\* \n\s*\n
paragraph_break == <<Lit(NL), Star(Space), Lit(NL)>>
\* (?<=[.!?])\s+
sentence_break == <<Behind({".", "!", "?"}), Plus(Space)>>

RECURSIVE PackSentences(_, _, _)
\* _split_into_chunks: the loop over the sentences of a long paragraph and the flush after it
PackSentences(sentences, current_chunk, chunk_size) ==
    IF sentences = <<>> THEN (IF current_chunk # "" THEN <<current_chunk>> ELSE <<>>)
    ELSE IF Len(current_chunk) + Len(Head(sentences)) <= chunk_size
    THEN PackSentences(Tail(sentences),
                       IF current_chunk # "" THEN current_chunk \o " " \o Head(sentences) ELSE Head(sentences),
                       chunk_size)
    ELSE (IF current_chunk # "" THEN <<current_chunk>> ELSE <<>>)
         \o PackSentences(Tail(sentences), Head(sentences), chunk_size)

\* _split_into_chunks: the chunks of one stripped paragraph
ParagraphChunks(para, chunk_size) ==
    IF para = "" THEN <<>>
    ELSE IF Len(para) <= chunk_size THEN <<para>>
    ELSE PackSentences(ReSplit(sentence_break, para), "", chunk_size)

\* ContextRetriever._split_into_chunks(text, chunk_size)
SplitIntoChunks(txt, chunk_size) ==
    LET paragraphs == ReSplit(paragraph_break, txt)
    IN FlatSeq([j \in 1..Len(paragraphs) |-> ParagraphChunks(Strip(paragraphs[j]), chunk_size)],
               1, Len(paragraphs))

\* _retrieve_from_text: the result for one chunk, if it has one
ChunkResult(query_terms, chunk) ==
    LET score == Overlap(query_terms, 0, {}, Terms(ToLower(chunk), 3))
    IN IF RatLess(Rat(2, 10), score)
       THEN <<RetrievalResult(chunk, AtMostOne(RatMul(score, Rat(8, 10))), "document text", "text")>>
       ELSE <<>>

\* ContextRetriever._retrieve_from_text(query, text)
RetrieveFromText(query, txt) ==
    IF txt = "" THEN <<>>
    ELSE LET chunks == SplitIntoChunks(txt, 300)
         IN FlatSeq([j \in 1..Len(chunks) |-> ChunkResult(Terms(ToLower(query), 3), chunks[j])], 1, Len(chunks))

\* results.sort(key=lambda x: x.score, reverse=True): q[j] goes after the entries of higher score
\* and the earlier entries of the same score
RankByScore(q, j) ==
    Cardinality({i \in 1..Len(q) : RatLess(q[j].score, q[i].score)})
    + Cardinality({i \in 1..j : ~RatLess(q[j].score, q[i].score) /\ ~RatLess(q[i].score, q[j].score)})
\* the results left in the order they were pooled
SortedByScore_AsPooled(q) == q

SortedByScore(q) == [p \in 1..Len(q) |-> q[CHOOSE j \in 1..Len(q) : RankByScore(q, j) = p]]

\* ContextRetriever.retrieve(query, document, top_k)
Retrieve(query, document, k) ==
    Take(SortedByScore(RetrieveFromFields(query, document.fields)
                       \o (IF document.tables # <<>> THEN RetrieveFromTables(query, document.tables) ELSE <<>>)
                       \o RetrieveFromText(query, document.raw_text)), k)

\* r.source = f"{doc.file_path}: {r.source}"
FromDocument(doc, results) ==
    [j \in 1..Len(results) |-> [results[j] EXCEPT !.source = doc.file_path \o ": " \o @]]

\* the union without the share of a document: top_k results are asked of each
RetrieveMulti_Unshared(query, docs, k) ==
    Take(SortedByScore(FlatSeq([d \in 1..Len(docs) |-> FromDocument(docs[d], Retrieve(query, docs[d], k))],
                               1, Len(docs))), k)

\* ContextRetriever.retrieve_multi(query, documents, top_k)
RetrieveMulti(query, docs, k) ==
    Take(SortedByScore(FlatSeq([d \in 1..Len(docs) |->
                                   FromDocument(docs[d], Retrieve(query, docs[d], k \div Len(docs) + 1))],
                               1, Len(docs))), k)

\* ContextRetriever.__init__(use_embeddings)
NewRetriever(use_embeddings) == [embedder |-> "None", use_embeddings |-> use_embeddings]

\* semantic_retrieve: chunks_with_meta
ChunksWithMeta(document) ==
    [j \in 1..Len(document.fields) |->
        [text |-> FieldLine(document.fields[j]), source |-> document.fields[j].name, type |-> "field"]]
    \o [j \in 1..Len(SplitIntoChunks(document.raw_text, 300)) |->
           [text |-> SplitIntoChunks(document.raw_text, 300)[j], source |-> "document text", type |-> "text"]]

\* the similarity the model gives the chunk of this rank, 1 the most similar: one above 0.2, less for
\* a lower rank
Similarity(rank) == Rat(10 - Min2(rank, 7), 10)

\* semantic_retrieve: the results for the top_k most similar chunks that are above 0.2
SemanticResults(chunks, top) ==
    [j \in 1..Len(top) |->
        RetrievalResult(chunks[top[j]].text, Similarity(j), chunks[top[j]].source, chunks[top[j]].type)]

\* semantic_retrieve after its embedder is there: the search inside try, and retrieve on any exception
SearchOrRetrieve(query, document, k, rating, chunks) ==
    IF rating.raises THEN Retrieve(query, document, k)
    ELSE IF chunks = <<>> THEN <<>>
    ELSE SemanticResults(chunks, TopIndices(Len(chunks), rating, k))

\* ContextRetriever.semantic_retrieve(query, document, top_k): load is what importing
\* sentence_transformers and building the model does, of which only ImportError is caught
SemanticRetrieve(query, document, k, retriever, load, rating) ==
    IF ~retriever.use_embeddings
    THEN [raised |-> FALSE, retriever |-> retriever, list |-> Retrieve(query, document, k)]
    ELSE IF retriever.embedder = "None" /\ load = "ImportError"
    THEN [raised |-> FALSE, retriever |-> retriever, list |-> Retrieve(query, document, k)]
    ELSE IF retriever.embedder = "None" /\ load # "ok"
    THEN [raised |-> TRUE, retriever |-> retriever, list |-> <<>>]
    ELSE [raised |-> FALSE, retriever |-> [retriever EXCEPT !.embedder = "model"],
          list |-> SearchOrRetrieve(query, document, k, rating, ChunksWithMeta(document))]

(***************************************************************************)
(* TableParser.aggregate (src/src/processors/table_parser.py)              *)
(***************************************************************************)
\* re.sub(r'[\$,...%\s]', '', cell) without the stripping
Cleaned_Unstripped(cell) == cell

\* re.sub(r'[\$,...%\s]', '', cell): the currency signs, the comma, the percent sign and white space go
Cleaned(cell) == Remove(cell, {"$", ",", "%"} \cup Space)

\* aggregate: values, the floats of the cells of column col_idx (counted from 1) that float() takes
ColumnValues(rows, col_idx) ==
    FloatValues(SelectSeq([r \in 1..Len(rows) |->
                              IF col_idx <= Len(rows[r]) THEN PyFloat(Cleaned(rows[r][col_idx]))
                              ELSE [ok |-> FALSE]],
                          LAMBDA f : f.ok))

\* headers.index(column), counted from 1
HeaderIndex(headers, column) == CHOOSE c \in 1..Len(headers) : headers[c] = column /\ \A b \in 1..(c - 1) : headers[b] # column

NoAggregate == [some |-> FALSE, value |-> Rat(0, 1)]
Aggregated(value) == [some |-> TRUE, value |-> value]

\* aggregate: the if-chain over operation, values not empty
Operate(values, operation) ==
    CASE operation = "sum" -> Aggregated(RatOf(FloatSum(values)))
      [] operation = "avg" -> Aggregated(RatMul(RatOf(FloatSum(values)), Rat(1, Len(values))))
      [] operation = "min" -> Aggregated(RatOf(MinFloat(values)))
      [] operation = "max" -> Aggregated(RatOf(MaxFloat(values)))
      [] operation = "count" -> Aggregated(Rat(Len(values), 1))
      [] OTHER -> NoAggregate

AggregateValues(values, operation) == IF values = <<>> THEN NoAggregate ELSE Operate(values, operation)

\* TableParser.aggregate(parsed_table, column, operation): what it returns, and the table as it leaves it
Aggregate(parsed_table, column, operation) ==
    [raised |-> FALSE,
     parsed_table |-> parsed_table,
     result |-> IF column \notin Range(parsed_table.headers) THEN NoAggregate
                ELSE AggregateValues(ColumnValues(parsed_table.rows, HeaderIndex(parsed_table.headers, column)),
                                     operation)]

(***************************************************************************)
(* chunk_text (src/src/utils/helpers.py)                                   *)
(***************************************************************************)
\* a slice bound as Python reads it for a string of n characters
SliceBound(k, n) == IF k < 0 THEN Max2(k + n, 0) ELSE Min2(k, n)

\* s[a:b]
PySlice(s, a, b) == SubSeq(s, SliceBound(a, Len(s)) + 1, SliceBound(b, Len(s)))

\* s.rfind(c, a, b) for a character c: the last index of c in s[a:b], -1 when it has none
RFind(s, c, a, b) ==
    IF \E i \in SliceBound(a, Len(s))..(SliceBound(b, Len(s)) - 1) : CharAt(s, i + 1) = c
    THEN CHOOSE i \in SliceBound(a, Len(s))..(SliceBound(b, Len(s)) - 1) :
             /\ CharAt(s, i + 1) = c
             /\ \A j \in (i + 1)..(SliceBound(b, Len(s)) - 1) : CharAt(s, j + 1) # c
    ELSE -1

\* int(end - chunk_size * 0.2): the difference cut towards zero
SearchStart(end, chunk_size) ==
    IF 5 * end - chunk_size >= 0 THEN (5 * end - chunk_size) \div 5 ELSE -((chunk_size - 5 * end) \div 5)

\* chunk_text: end moved behind the last full stop of the last fifth of the chunk
BreakAt(s, end, search_start) ==
    IF end < Len(s) /\ RFind(s, ".", search_start, end) > search_start
    THEN RFind(s, ".", search_start, end) + 1
    ELSE end

\* chunk_text: end, for the chunk that starts at start
ChunkEnd(s, start, chunk_size) == BreakAt(s, start + chunk_size, SearchStart(start + chunk_size, chunk_size))

\* chunk_text has not been called: its arguments
ChunkCall(chunk_size, overlap) ==
    [pc |-> "call", chunk_size |-> chunk_size, overlap |-> overlap, start |-> 0, chunks |-> <<>>]

\* chunk_text: the guard, then chunks = [] and start = 0
ChunkEntered(c, s) == [c EXCEPT !.pc = IF s = "" \/ c.chunk_size <= 0 THEN "returned" ELSE "loop"]

\* chunk_text: one pass of the loop body
ChunkAppended(c, s, end) == [c EXCEPT !.chunks = Append(@, Strip(PySlice(s, c.start, end))), !.start = end - c.overlap]

(***************************************************************************)
(* IntelligentFormAgent (src/src/agent.py)                                 *)
(***************************************************************************)
\* IntelligentFormAgent._calculate_confidence(fields, raw_text)
ExtractionConfidence(flds, raw_text) ==
    IF raw_text = "" THEN Rat(0, 1)
    ELSE LET text_quality == RatMin(Rat(1, 1), Rat(Len(raw_text), 500))
             field_boost == RatMin(Rat(3, 10), Rat(3 * Len(flds), 100))
             alpha_ratio == Rat(Cardinality({p \in 1..Len(raw_text) : CharAt(raw_text, p) \in Letters}),
                                Max2(1, Len(raw_text)))
             quality_factor == RatMin(Rat(1, 1), RatMul(alpha_ratio, Rat(2, 1)))
         IN RatMin(Rat(1, 1), RatAdd(RatAdd(RatMul(text_quality, Rat(4, 10)), field_boost),
                                     RatMul(quality_factor, Rat(3, 10))))

\* IntelligentFormAgent.load_form(file_path), raw_text and tables being what the extractor read from the
\* file; the file type, the metadata and the time of processing are left out
LoadForm(file_path, raw_text, tabs) ==
    LET result == Parse(raw_text)
    IN IF result.raised THEN [raised |-> TRUE, document |-> <<>>]
       ELSE [raised |-> FALSE,
             document |-> FormDocument(file_path, raw_text, result.fields, tabs,
                                       Detect(raw_text, result.fields),
                                       ExtractionConfidence(result.fields, raw_text))]

(***************************************************************************)
(* State                                                                   *)
(***************************************************************************)
VARIABLES
    target,     \* the object whose methods the client calls in this run
    text,       \* the raw text handed to the parser
    parsed,     \* what FieldParser.parse returned for text, once called
    matches,    \* what FieldParser.parse_with_confidence returned for text, once called
    raw_tables, \* the raw tables handed to TableParser.parse
    normalized, \* what TableParser._normalize_table returned for one of the raw tables
    tables,     \* what TableParser.parse returned for raw_tables, once called
    fields,     \* the extracted fields handed to SchemaDetector along with text
    schema_type,    \* what SchemaDetector.detect returned, once called
    schema_match,   \* what SchemaDetector.detect_with_confidence returned, once called
    schema_matches, \* what SchemaDetector.detect_all_matches returned, once called
    file_path,  \* the file handed to the agent
    document,   \* what IntelligentFormAgent.load_form returned, once called
    question,   \* the question asked of the engine, or the query handed to the retriever
    documents,  \* the loaded forms it is asked of
    top_k,      \* the number of results asked of the retriever
    engine,     \* the QAEngine: its embedder, its _use_embeddings flag and its top_k
    query_result,   \* what the last call of QAEngine.answer or answer_multiple returned
    provider,   \* what the embedding provider did in the last call, if that could ask for it
    retriever,  \* the ContextRetriever: its _embedder and its use_embeddings flag
    retrieved,  \* what the last call of ContextRetriever.retrieve, retrieve_multi or semantic_retrieve returned,
                \* and of which of documents it was asked
    analysis,   \* what the last call of QAEngine.cross_form_analysis returned
    aggregated, \* what the last call of TableParser.aggregate returned, with the table as it left it
    processed,  \* what the call of FieldParser._process_value returned
    chunker     \* the call of chunk_text: where it is, its arguments, start and chunks

inputs == <<target, text, raw_tables, fields, file_path, question, documents, top_k>>
fpVars == <<parsed, matches>>
tpVars == <<normalized, tables>>
sdVars == <<schema_type, schema_match, schema_matches>>
agVars == <<document>>
qaVars == <<engine, query_result, provider>>
crVars == <<retriever, retrieved>>
moreVars == <<analysis, aggregated, processed, chunker>>
vars == <<inputs, fpVars, tpVars, sdVars, agVars, qaVars, crVars, moreVars>>
\* the inputs of a query other than the documents
asked == <<target, text, raw_tables, fields, file_path, question, top_k>>

\* the documents with the first field of each taken out of it
AfterQuery_Popped(docs) == [d \in 1..Len(docs) |-> [docs[d] EXCEPT !.fields = SubSeq(@, 2, Len(@))]]

\* the documents passed to a query as the query leaves them: answer, answer_multiple,
\* cross_form_analysis, retrieve, retrieve_multi and semantic_retrieve read fields, tables,
\* raw_text, schema_type and file_path and assign to no attribute of a document (the one
\* attribute assigned, r.source in retrieve_multi, is of a result built by retrieve)
AfterQuery(docs) == docs

Parsed(r) == [done |-> TRUE, raised |-> r.raised, fields |-> r.fields]
NotParsed == [done |-> FALSE, raised |-> FALSE, fields |-> <<>>]
NoMatches == [done |-> FALSE, list |-> <<>>]
NotNormalized == [done |-> FALSE, of |-> <<>>, rows |-> <<>>]
NoTables == [done |-> FALSE, list |-> <<>>]
NotDetected == [done |-> FALSE, some |-> FALSE, schema_type |-> ""]
NoSchemaMatch == [done |-> FALSE, some |-> FALSE, match |-> <<>>]
NoSchemaMatches == [done |-> FALSE, list |-> <<>>]
NotLoaded == [done |-> FALSE, raised |-> FALSE, document |-> <<>>]
NotAnswered == [done |-> FALSE, op |-> "", of |-> 0] @@ QueryRaised("")
NotRetrieved == [done |-> FALSE, op |-> "", of |-> 0, raised |-> FALSE, list |-> <<>>]
NotAsked == [load |-> "ok", rating |-> [best |-> "first", above |-> 0, raises |-> FALSE]]
NotAnalysed == [done |-> FALSE]
NotAggregated == [done |-> FALSE]
NotProcessed == [done |-> FALSE]
NotChunked == ChunkCall(500, 50)
\* the chunk sizes and the overlaps chunk_text is called with; the overlap is below the chunk size
ChunkSizes == {1, 2, 5, 11}
Overlaps == {0, 1, 4, 10}
\* the value a call returned, marked as present
Returning(r) == [done |-> TRUE] @@ r

\* nothing has been called yet
NoResults ==
    /\ parsed = NotParsed
    /\ matches = NoMatches
    /\ normalized = NotNormalized
    /\ tables = NoTables
    /\ schema_type = NotDetected
    /\ schema_match = NoSchemaMatch
    /\ schema_matches = NoSchemaMatches
    /\ document = NotLoaded
    /\ engine = NewEngine
    /\ query_result = NotAnswered
    /\ provider = NotAsked
    /\ retriever \in {NewRetriever(u) : u \in IF target = "ContextRetriever" THEN BOOLEAN ELSE {TRUE}}
    /\ retrieved = NotRetrieved
    /\ analysis = NotAnalysed
    /\ aggregated = NotAggregated
    /\ processed = NotProcessed
    /\ chunker \in IF target = "Chunker"
                  THEN {ChunkCall(a[1], a[2]) : a \in {b \in ChunkSizes \X Overlaps : b[2] < b[1]}}
                  ELSE {NotChunked}

\* no file, no question and no loaded forms: the components that take none
NoQuery ==
    /\ file_path = ""
    /\ question = ""
    /\ documents = <<>>
    /\ top_k = 0

(***************************************************************************)
(* Field parsing: the texts are up to MaxLines lines drawn from FPLines    *)
(***************************************************************************)
MaxLines == 2

FPLines ==
    { "Employee SSN: 123-45-6789",
      "the: 123 45 6789",
      "Name : Bo",
      "[x] opt A",
      "Total = $1,234.56",
      "DOB: 01/02/2024",
      "mail x@y.co",
      "ID - 1.2.3",
      "1. Age: 42",
      "Name - C.",
      "Name:  " }

FPTexts == {Join(NL, ls) : ls \in UNION {[1..n -> FPLines] : n \in 0..MaxLines}}

InitFP ==
    /\ target = "FieldParser"
    /\ text \in FPTexts
    /\ raw_tables = <<>>
    /\ fields = <<>>
    /\ NoQuery
    /\ NoResults

\* fields = parser.parse(text)
CallParse ==
    /\ target = "FieldParser"
    /\ ~parsed.done
    /\ parsed' = Parsed(Parse(text))
    /\ UNCHANGED <<inputs, matches, tpVars, sdVars, agVars, qaVars, crVars, moreVars>>

\* parser.parse_with_confidence(text)
CallParseWithConfidence ==
    /\ target \in {"FieldParser", "Confidence"}
    /\ ~matches.done
    /\ matches' = [done |-> TRUE, list |-> ParseWithConfidence(text)]
    /\ UNCHANGED <<inputs, parsed, tpVars, sdVars, agVars, qaVars, crVars, moreVars>>

NextFP == CallParse \/ CallParseWithConfidence

SpecFP == InitFP /\ [][NextFP]_vars

(***************************************************************************)
(* Table parsing: a raw table is up to MaxRows rows drawn from TableRows   *)
(***************************************************************************)
MaxRows == 3

TableRows ==
    { <<" Item ", "Qty">>,
      <<"pen", "7">>,
      <<"$1,200", "", "5%">>,
      <<"Bo">>,
      <<>> }

RawTables == UNION {[1..n -> TableRows] : n \in 1..MaxRows}

\* the lists of raw tables: none, one table, or a table (possibly empty) and a one-row table
TableInputs ==
    {<<>>} \cup {<<t>> : t \in RawTables}
           \cup {<<t, <<r>> >> : t \in RawTables \cup {<<>>}, r \in TableRows}

InitTable ==
    /\ target = "TableParser"
    /\ text = ""
    /\ raw_tables \in TableInputs
    /\ fields = <<>>
    /\ NoQuery
    /\ NoResults

\* parser._normalize_table(raw_tables[k])
CallNormalizeTable ==
    /\ target = "TableParser"
    /\ ~normalized.done
    /\ \E k \in 1..Len(raw_tables) :
         normalized' = [done |-> TRUE, of |-> raw_tables[k], rows |-> NormalizeTable(raw_tables[k])]
    /\ UNCHANGED <<inputs, fpVars, tables, sdVars, agVars, qaVars, crVars, moreVars>>

\* parser.parse(raw_tables)
CallTableParse ==
    /\ target \in {"TableParser", "Aggregate"}
    /\ ~tables.done
    /\ tables' = [done |-> TRUE, list |-> TableParse(raw_tables)]
    /\ UNCHANGED <<inputs, fpVars, normalized, sdVars, agVars, qaVars, crVars, moreVars>>

NextTable == CallNormalizeTable \/ CallTableParse

SpecTable == InitTable /\ [][NextTable]_vars

(***************************************************************************)
(* Schema detection: a text is up to MaxPhrases phrases drawn from         *)
(* SchemaPhrases, given with or without extracted fields                   *)
(***************************************************************************)
MaxPhrases == 2

SchemaPhrases ==
    { "Form W-2 EIN",
      "form w-4",
      "withholding allowance",
      "gpa major degree school student",
      "loan application" }

\* a statement that names a W-2 and a W-4 in full
BothFormsText ==
    "Wage and Tax Statement, Form W-2: employer identification number (EIN), employee's social security number, "
    \o "federal income tax withheld, social security wages. Employee's Withholding, Form W-4: "
    \o "withholding allowance, personal allowances, additional amount to withhold"

SchemaTexts == {Join(" ", ps) : ps \in UNION {[1..n -> SchemaPhrases] : n \in 0..MaxPhrases}} \cup {BothFormsText}

\* fields is None, or the FieldMap of a parsed form
SchemaFields ==
    { <<>>,
      << [name |-> "Form", value |-> VStr("W-4")],
         [name |-> "Personal Allowances", value |-> VInt(2)],
         [name |-> "Exempt", value |-> VBool(FALSE)] >> }

InitSchema ==
    /\ target = "SchemaDetector"
    /\ text \in SchemaTexts
    /\ raw_tables = <<>>
    /\ fields \in SchemaFields
    /\ NoQuery
    /\ NoResults

\* detector.detect(text, fields)
CallDetect ==
    /\ target = "SchemaDetector"
    /\ ~schema_type.done
    /\ schema_type' = Returning(Detect(text, fields))
    /\ UNCHANGED <<inputs, fpVars, tpVars, schema_match, schema_matches, agVars, qaVars, crVars, moreVars>>

\* detector.detect_with_confidence(text, fields)
CallDetectWithConfidence ==
    /\ target = "SchemaDetector"
    /\ ~schema_match.done
    /\ schema_match' = Returning(DetectWithConfidence(text, fields))
    /\ UNCHANGED <<inputs, fpVars, tpVars, schema_type, schema_matches, agVars, qaVars, crVars, moreVars>>

\* detector.detect_all_matches(text, fields)
CallDetectAllMatches ==
    /\ target = "SchemaDetector"
    /\ ~schema_matches.done
    /\ schema_matches' = [done |-> TRUE, list |-> DetectAllMatches(text, fields)]
    /\ UNCHANGED <<inputs, fpVars, tpVars, schema_type, schema_match, agVars, qaVars, crVars, moreVars>>

NextSchema == CallDetect \/ CallDetectWithConfidence \/ CallDetectAllMatches

SpecSchema == InitSchema /\ [][NextSchema]_vars

(***************************************************************************)
(* Forms: the files the agent loads, as the text and the tables the        *)
(* extractor reads from them                                               *)
(***************************************************************************)
FormFiles ==
    << [file_path |-> "w2.txt",
        raw_text |-> "Employee Name: Ann Lee\nTotal Wages: $1,250.00\nHire Date: 01/02/2024",
        tables |-> << << <<"Item", "Amount">>, <<"Wages", "1250">> >> >>],
       [file_path |-> "note.txt",
        raw_text |-> "The applicant lives at 5 Main Street in Boston. Payment total is 300 dollars",
        tables |-> <<>>],
       [file_path |-> "blank.txt", raw_text |-> "", tables |-> <<>>] >>

InitAgent ==
    /\ target = "Agent"
    /\ \E f \in Range(FormFiles) : file_path = f.file_path /\ text = f.raw_text /\ raw_tables = f.tables
    /\ fields = <<>>
    /\ question = ""
    /\ documents = <<>>
    /\ top_k = 0
    /\ NoResults

\* agent.load_form(file_path)
CallLoadForm ==
    /\ target = "Agent"
    /\ ~document.done
    /\ document' = Returning(LoadForm(file_path, text, raw_tables))
    /\ UNCHANGED <<inputs, fpVars, tpVars, sdVars, qaVars, crVars, moreVars>>

NextAgent == CallLoadForm

SpecAgent == InitAgent /\ [][NextAgent]_vars

(***************************************************************************)
(* Questions: a question is asked of up to MaxDocs loaded forms; the       *)
(* embedding model, when it loads, rates at most MaxSemantic chunks of a   *)
(* form above the threshold                                                *)
(***************************************************************************)
MaxDocs == 2
MaxSemantic == 1

\* the documents load_forms returns for the files
Forms == [k \in 1..Len(FormFiles) |-> LoadForm(FormFiles[k].file_path, FormFiles[k].raw_text, FormFiles[k].tables).document]

\* up to MaxDocs of them, in the order of the files
DocLists ==
    {AtIndices(Forms, idx) : idx \in {q \in UNION {[1..n -> 1..Len(FormFiles)] : n \in 0..MaxDocs} :
                                         \A i, j \in 1..Len(q) : i < j => q[i] < q[j]}}

Questions ==
    { "What is the employee name?",
      "What is the total amount?",
      "total wages",
      "Who signed?",
      "hire date",
      "street of the applicant",
      "Where is the applicant street",
      "what's the hire date today",
      "" }

\* what importing sentence_transformers and building the model can do
Loads == {"ok", "ImportError", "OSError"}

\* how the model can rate the chunks of a form
\* encode raises (or numpy is missing), or it rates the chunks
Ratings ==
    {[best |-> "first", above |-> 0, raises |-> r] : r \in BOOLEAN}
    \cup [best : {"first", "last"}, above : 1..MaxSemantic, raises : {FALSE}]

InitQA ==
    /\ target = "QAEngine"
    /\ file_path = ""
    /\ text = ""
    /\ raw_tables = <<>>
    /\ fields = <<>>
    /\ documents \in DocLists
    /\ question \in Questions
    /\ top_k = 0
    /\ NoResults

\* the outcomes of loading that matter to an engine in this state
LoadsFor(eng) == IF eng.embedder = "None" /\ eng.use_embeddings THEN Loads ELSE {"ok"}

\* the ratings that matter after this outcome
NoRating == [best |-> "first", above |-> 0, raises |-> FALSE]
RatingsFor(eng, load) == IF load = "ok" /\ eng.use_embeddings THEN Ratings ELSE {NoRating}

\* the call returned: the engine as it left it, and its result
Returns(op, d, load, rating, call) ==
    /\ engine' = call.engine
    /\ provider' = [load |-> load, rating |-> rating]
    /\ query_result' = [done |-> TRUE, op |-> op, of |-> d] @@ call.result

\* engine.answer(question, documents[d])
CallAnswer ==
    /\ target \in {"QAEngine", "Quantity"}
    /\ \E d \in 1..Len(documents), load \in LoadsFor(engine) :
         \E rating \in RatingsFor(engine, load) :
            Returns("answer", d, load, rating, Answer(question, documents[d], engine, load, rating))
    /\ documents' = AfterQuery(documents)
    /\ UNCHANGED <<asked, fpVars, tpVars, sdVars, agVars, crVars, moreVars>>

\* engine.answer_multiple(question, documents)
CallAnswerMultiple ==
    /\ target \in {"QAEngine", "Quantity"}
    /\ \E load \in LoadsFor(engine) :
         \E rating \in RatingsFor(engine, load) :
            Returns("answer_multiple", 0, load, rating, AnswerMultiple(question, documents, engine, load, rating))
    /\ documents' = AfterQuery(documents)
    /\ UNCHANGED <<asked, fpVars, tpVars, sdVars, agVars, crVars, moreVars>>

NextQA == CallAnswer \/ CallAnswerMultiple

SpecQA == InitQA /\ [][NextQA]_vars

(***************************************************************************)
(* Retrieval: a query is run against the loaded forms                      *)
(***************************************************************************)
TopKs == {0, 1, 5}

Queries == {"What is the employee name?", "total wages", "ann total wages", ""}

InitRetriever ==
    /\ target = "ContextRetriever"
    /\ file_path = ""
    /\ text = ""
    /\ raw_tables = <<>>
    /\ fields = <<>>
    /\ documents \in DocLists
    /\ question \in Queries
    /\ top_k \in TopKs
    /\ NoResults

\* retriever.retrieve(question, documents[d], top_k)
CallRetrieve ==
    /\ target = "ContextRetriever"
    /\ \E d \in 1..Len(documents) :
         retrieved' = [done |-> TRUE, op |-> "retrieve", of |-> d, raised |-> FALSE,
                       list |-> Retrieve(question, documents[d], top_k)]
    /\ provider' = NotAsked
    /\ documents' = AfterQuery(documents)
    /\ UNCHANGED <<asked, fpVars, tpVars, sdVars, agVars, engine, query_result, retriever, moreVars>>

\* retriever.retrieve_multi(question, documents, top_k)
CallRetrieveMulti ==
    /\ target = "ContextRetriever"
    /\ retrieved' = [done |-> TRUE, op |-> "retrieve_multi", of |-> 0, raised |-> FALSE,
                     list |-> RetrieveMulti(question, documents, top_k)]
    /\ provider' = NotAsked
    /\ documents' = AfterQuery(documents)
    /\ UNCHANGED <<asked, fpVars, tpVars, sdVars, agVars, engine, query_result, retriever, moreVars>>

\* the call returned, or an exception left it
SemanticReturns(d, load, rating, call) ==
    /\ retriever' = call.retriever
    /\ provider' = [load |-> load, rating |-> rating]
    /\ retrieved' = [done |-> TRUE, op |-> "semantic_retrieve", of |-> d, raised |-> call.raised, list |-> call.list]

\* retriever.semantic_retrieve(question, documents[d], top_k)
CallSemanticRetrieve ==
    /\ target = "ContextRetriever"
    /\ \E d \in 1..Len(documents), load \in LoadsFor(retriever) :
         \E rating \in RatingsFor(retriever, load) :
            SemanticReturns(d, load, rating, SemanticRetrieve(question, documents[d], top_k, retriever, load, rating))
    /\ documents' = AfterQuery(documents)
    /\ UNCHANGED <<asked, fpVars, tpVars, sdVars, agVars, engine, query_result, moreVars>>

NextRetriever == CallRetrieve \/ CallRetrieveMulti \/ CallSemanticRetrieve

SpecRetriever == InitRetriever /\ [][NextRetriever]_vars

(***************************************************************************)
(* Analysis: a question is asked across up to MaxAnalysed forms that share *)
(* field names, with numbers, amounts, dates, booleans and text as values  *)
(***************************************************************************)
MaxAnalysed == 3

AnalysisFiles ==
    << [file_path |-> "a.txt",
        raw_text |-> "Annual Salary: 110000\nExempt: yes\nBonus: $500.00\nStart: 01/02/2024",
        tables |-> <<>>],
       [file_path |-> "b.txt",
        raw_text |-> "Annual Salary: 80000\nExempt: 2\nBonus: 250.5\nStart: 03/04/2024\nDept: Ops",
        tables |-> <<>>],
       [file_path |-> "c.txt",
        raw_text |-> "Annual Salary: 65000\nExempt: 3\nBonus: n/a",
        tables |-> <<>>] >>

\* the documents load_forms returns for them
AnalysisForms ==
    [k \in 1..Len(AnalysisFiles) |->
        LoadForm(AnalysisFiles[k].file_path, AnalysisFiles[k].raw_text, AnalysisFiles[k].tables).document]

\* up to MaxAnalysed of them, in the order of the files
AnalysisLists ==
    {AtIndices(AnalysisForms, idx) :
        idx \in {q \in UNION {[1..n -> 1..Len(AnalysisFiles)] : n \in 0..MaxAnalysed} :
                    \A i, j \in 1..Len(q) : i < j => q[i] < q[j]}}

AnalysisQuestions == {"What is the annual salary?", "total bonus", "Who is exempt?", ""}

InitAnalysis ==
    /\ target = "Analysis"
    /\ file_path = ""
    /\ text = ""
    /\ raw_tables = <<>>
    /\ fields = <<>>
    /\ documents \in AnalysisLists
    /\ question \in AnalysisQuestions
    /\ top_k = 0
    /\ NoResults

\* the call returned: the engine as answer_multiple left it, and the analysis
Analysed(load, rating, r) ==
    /\ engine' = r.engine
    /\ provider' = [load |-> load, rating |-> rating]
    /\ analysis' = [done |-> TRUE] @@ r

\* engine.cross_form_analysis(question, documents)
CallCrossFormAnalysis ==
    /\ target = "Analysis"
    /\ \E load \in LoadsFor(engine) :
         \E rating \in RatingsFor(engine, load) :
            Analysed(load, rating, CrossFormAnalysis(question, documents, engine, load, rating))
    /\ documents' = AfterQuery(documents)
    /\ UNCHANGED <<asked, fpVars, tpVars, sdVars, agVars, query_result, crVars, aggregated, processed, chunker>>

NextAnalysis == CallCrossFormAnalysis

SpecAnalysis == InitAnalysis /\ [][NextAnalysis]_vars

(***************************************************************************)
(* Aggregation: a column of a parsed table is aggregated; the raw table is *)
(* a header row or none, then up to MaxAggregated rows of AggregateRows    *)
(***************************************************************************)
MaxAggregated == 2

AggregateHeaders == { <<"Item", "Amount", "Share">>, <<"Item", "Amount", "Amount">> }

AggregateRows ==
    { <<"pen", "7", "5%">>,
      <<"ink", "$1,200", "n/a">>,
      <<"cap", "", "-2.5">>,
      <<"nib", " 1 207 ", "1e2">> }

AggregateTables ==
    {h \o rows : h \in {<<>>} \cup {<<x>> : x \in AggregateHeaders},
                 rows \in UNION {[1..n -> AggregateRows] : n \in 0..MaxAggregated}}

Columns == {"Amount", "Share", "Item", "Column 2", "Qty"}

Operations == {"sum", "avg", "min", "max", "count", "median"}

InitAggregate ==
    /\ target = "Aggregate"
    /\ text = ""
    /\ raw_tables \in {<<t>> : t \in AggregateTables}
    /\ fields = <<>>
    /\ NoQuery
    /\ NoResults

\* the call returned: the table as the call left it, and the result
AggregateReturns(t, column, operation, call) ==
    /\ tables' = [tables EXCEPT !.list[t] = call.parsed_table]
    /\ aggregated' = [done |-> TRUE, of |-> t, column |-> column, operation |-> operation,
                      raised |-> call.raised, result |-> call.result]

\* parser.aggregate(tables[t], column, operation)
CallAggregate ==
    /\ target = "Aggregate"
    /\ tables.done
    /\ \E t \in 1..Len(tables.list), column \in Columns, operation \in Operations :
         AggregateReturns(t, column, operation, Aggregate(tables.list[t], column, operation))
    /\ UNCHANGED <<inputs, fpVars, normalized, sdVars, agVars, qaVars, crVars, analysis, processed, chunker>>

NextAggregate == CallTableParse \/ CallAggregate

SpecAggregate == InitAggregate /\ [][NextAggregate]_vars

(***************************************************************************)
(* Values: _process_value is applied to a value, written as a sign or      *)
(* currency sign, digits, a fraction and a unit, or one of the other texts *)
(***************************************************************************)
ValuePrefixes == {"", "$", "-"}
ValueDigits == {"", "7", "12", "1,234"}
ValueFractions == {"", ".5", ".50", ".5.1"}
ValueUnits == {"", " USD", " dollars", "%"}

ValueTokens ==
    {"yes", "Y", "no", "TRUE", "01/02/2024", "2024-1-2", "Jan 5, 2024", "5 Jan 2024",
     "1/2/24 at noon", "hello", "$,", "n/a", " 42 ", "12,34", "1,234,567"}

Values ==
    {p \o w \o f \o u : p \in ValuePrefixes, w \in ValueDigits, f \in ValueFractions, u \in ValueUnits}
    \cup ValueTokens

InitValue ==
    /\ target = "Value"
    /\ text \in Values
    /\ raw_tables = <<>>
    /\ fields = <<>>
    /\ NoQuery
    /\ NoResults

\* parser._process_value(text)
CallProcessValue ==
    /\ target = "Value"
    /\ ~processed.done
    /\ processed' = [done |-> TRUE, value |-> ProcessValue(text)]
    /\ UNCHANGED <<inputs, fpVars, tpVars, sdVars, agVars, qaVars, crVars, analysis, aggregated, chunker>>

NextValue == CallProcessValue

SpecValue == InitValue /\ [][NextValue]_vars

(***************************************************************************)
(* Confidence: parse_with_confidence is applied to up to MaxMatchLines     *)
(* lines drawn from MatchLines, two of them with a value of more than 200  *)
(* characters                                                              *)
(***************************************************************************)
MaxMatchLines == 2

\* a value of n characters
Filler(n) == FlatStr([i \in 1..n |-> "x"], 1, n)

MatchLines ==
    { "Ab: " \o Filler(201),
      "Abc: " \o Filler(201),
      "Ab: x",
      "Id: 7",
      "Name : Bo",
      "Age = 42",
      "[x] opt A" }

MatchTextsIn == {Join(NL, ls) : ls \in UNION {[1..n -> MatchLines] : n \in 0..MaxMatchLines}}

InitConfidence ==
    /\ target = "Confidence"
    /\ text \in MatchTextsIn
    /\ raw_tables = <<>>
    /\ fields = <<>>
    /\ NoQuery
    /\ NoResults

NextConfidence == CallParseWithConfidence

SpecConfidence == InitConfidence /\ [][NextConfidence]_vars

(***************************************************************************)
(* Amounts: a question about a quantity is asked of one of up to           *)
(* MaxQuantityDocs forms whose texts have numbers, amounts, commas or none *)
(***************************************************************************)
MaxQuantityDocs == 1

QuantityFiles ==
    << [file_path |-> "memo.txt", raw_text |-> "Payment total is due, soon", tables |-> <<>>],
       [file_path |-> "bill.txt",
        raw_text |-> "Rent: $1,200.00\nFee: 35\nGrand Total: $1,235.00",
        tables |-> <<>>],
       [file_path |-> "list.txt", raw_text |-> "We owe 12 and 1,300.5 in rent", tables |-> <<>>],
       [file_path |-> "plain.txt", raw_text |-> "How many were sold is unknown", tables |-> <<>>],
       [file_path |-> "dues.txt",
        raw_text |-> "Total A: 1\nTotal B: 2\nTotal C: 3\nTotal D: 4\nTotal E: 5\nTotal F: 6",
        tables |-> <<>>] >>

\* the documents load_forms returns for them
QuantityForms ==
    [k \in 1..Len(QuantityFiles) |->
        LoadForm(QuantityFiles[k].file_path, QuantityFiles[k].raw_text, QuantityFiles[k].tables).document]

\* up to MaxQuantityDocs of them, in the order of the files
QuantityLists ==
    {AtIndices(QuantityForms, idx) :
        idx \in {q \in UNION {[1..n -> 1..Len(QuantityFiles)] : n \in 0..MaxQuantityDocs} :
                    \A i, j \in 1..Len(q) : i < j => q[i] < q[j]}}

QuantityQuestions == {"total due", "how much rent do we owe", "how many sold", "amount of the fee"}

InitQuantity ==
    /\ target = "Quantity"
    /\ file_path = ""
    /\ text = ""
    /\ raw_tables = <<>>
    /\ fields = <<>>
    /\ documents \in QuantityLists
    /\ question \in QuantityQuestions
    /\ top_k = 0
    /\ NoResults

NextQuantity == CallAnswer \/ CallAnswerMultiple

SpecQuantity == InitQuantity /\ [][NextQuantity]_vars

(***************************************************************************)
(* Chunking: chunk_text is called on a text of up to MaxText characters    *)
(* with a chunk size and an overlap below it, and runs its loop pass by    *)
(* pass; a list of MaxChunks chunks is one no run that ends needs          *)
(***************************************************************************)
MaxText == 12
MaxChunks == MaxText + 1

\* runs of x with at most one full stop, and a text with blanks
ChunkTexts ==
    {Filler(n) : n \in 0..MaxText}
    \cup {Filler(i) \o "." \o Filler(j) : i, j \in {0, 1, 3, 4, 9, MaxText - 10, MaxText - 1}}
    \cup {" a. b "}

InitChunk ==
    /\ target = "Chunker"
    /\ text \in {s \in ChunkTexts : Len(s) <= MaxText}
    /\ raw_tables = <<>>
    /\ fields = <<>>
    /\ NoQuery
    /\ NoResults

\* chunk_text(text, chunk_size, overlap): entry
CallChunkText ==
    /\ target = "Chunker"
    /\ chunker.pc = "call"
    /\ chunker' = ChunkEntered(chunker, text)
    /\ UNCHANGED <<inputs, fpVars, tpVars, sdVars, agVars, qaVars, crVars, analysis, aggregated, processed>>

\* chunk_text: one pass of "while start < len(text)"
ChunkLoop ==
    /\ target = "Chunker"
    /\ chunker.pc = "loop"
    /\ chunker.start < Len(text)
    /\ Len(chunker.chunks) < MaxChunks
    /\ chunker' = ChunkAppended(chunker, text, ChunkEnd(text, chunker.start, chunker.chunk_size))
    /\ UNCHANGED <<inputs, fpVars, tpVars, sdVars, agVars, qaVars, crVars, analysis, aggregated, processed>>

\* chunk_text: the loop is left and chunks is returned
ChunkReturn ==
    /\ target = "Chunker"
    /\ chunker.pc = "loop"
    /\ chunker.start >= Len(text)
    /\ chunker' = [chunker EXCEPT !.pc = "returned"]
    /\ UNCHANGED <<inputs, fpVars, tpVars, sdVars, agVars, qaVars, crVars, analysis, aggregated, processed>>

NextChunk == CallChunkText \/ ChunkLoop \/ ChunkReturn

SpecChunk == InitChunk /\ [][NextChunk]_vars

\* the interpreter runs the call on
SpecChunkFair == SpecChunk /\ WF_vars(NextChunk)

(***************************************************************************)
(* Queries: the engine or the retriever, used as above                     *)
(***************************************************************************)
InitQuery == InitQA \/ InitRetriever

NextQuery == NextQA \/ NextRetriever

SpecQuery == InitQuery /\ [][NextQuery]_vars

(***************************************************************************)
(* Every query operation: the engine, the retriever or the analysis, used  *)
(* as above                                                                *)
(***************************************************************************)
\* the questions put to the engine, the retriever and the analysis alike
AnyQueryQuestions == {"What is the employee name?", "total wages", "total bonus", ""}

InitAnyQuery ==
    /\ InitQuery \/ InitAnalysis
    /\ question \in AnyQueryQuestions

NextAnyQuery == NextQuery \/ NextAnalysis

SpecAnyQuery == InitAnyQuery /\ [][NextAnyQuery]_vars

(***************************************************************************)
(* The pipeline: any one of its components, used as above                  *)
(***************************************************************************)
\* at most this many forms are loaded, and at most this many raw tables given
MaxPipelineDocs == 1
MaxPipelineTables == 1

Init ==
    /\ InitFP \/ InitTable \/ InitSchema \/ InitAgent \/ InitQA \/ InitRetriever
    /\ Len(documents) <= MaxPipelineDocs
    /\ Len(raw_tables) <= MaxPipelineTables

Next == NextFP \/ NextTable \/ NextSchema \/ NextAgent \/ NextQA \/ NextRetriever

Spec == Init /\ [][Next]_vars

(***************************************************************************)
(* Properties of FieldParser.parse                                         *)
(***************************************************************************)
\* the texts a field value holds
ValueTexts(v) ==
    CASE v.type \in {"str", "date", "currency"} -> {v.s}
      [] v.type = "list" -> {v.items[j] : j \in 1..Len(v.items)}
      [] OTHER -> {}

\* an SSN-shaped digit sequence occurs in s
HasRawSSN(s) == Found(ssn_pattern, s)

\* C1: no value of the FieldMap returned by parse holds a raw SSN-shaped digit
\* sequence; every SSN of the text appears only as XXX-XX- and its last four digits.
C1_NoRawSSN ==
    parsed.done =>
        \A j \in 1..Len(parsed.fields) : \A t \in ValueTexts(parsed.fields[j].value) : ~HasRawSSN(t)

\* C2: parse does not raise, and every key of the FieldMap is non-empty, trimmed
\* and not in the generic stoplist.
C2_KeysWellFormed ==
    parsed.done =>
        /\ ~parsed.raised
        /\ \A k \in Keys(parsed.fields) : k # "" /\ Strip(k) = k /\ ToLower(k) \notin GenericNames

\* a parse of a text with a generic label, whose result has a key from a label
\* pattern, one from the special extractors and one from the checkbox extractor
C2_Witness ==
    /\ parsed.done
    /\ Contains(text, "the: 123")
    /\ {"SSN", "x", "Selected Options"} \subseteq Keys(parsed.fields)

(***************************************************************************)
(* Properties of TableParser                                               *)
(***************************************************************************)
\* the raw tables parse does not skip, in order
KeptTables(tabs) == SelectSeq(tabs, LAMBDA t : t # <<>>)

\* the rows of a ParsedTable as they were normalized: the header row, if any, first
AllRows(pt) == IF pt.has_header THEN <<pt.headers>> \o pt.rows ELSE pt.rows

\* rows has one row per row of raw, each as long as the longest row of raw,
\* and "" in every cell past the end of its raw row
PaddedTo(raw, rows) ==
    /\ Len(rows) = Len(raw)
    /\ \A r \in 1..Len(raw) :
         /\ Len(rows[r]) = MaxCols(raw)
         /\ \A c \in 1..Len(rows[r]) : c > Len(raw[r]) => rows[r][c] = ""

\* C3: every row of a table returned by parse or _normalize_table is as long as
\* the longest row of the raw table, short rows being padded on the right with "";
\* every data row has len(headers) cells, column_count is len(headers) and
\* row_count is len(rows).
C3_RowsPadded ==
    /\ normalized.done /\ normalized.of # <<>> => PaddedTo(normalized.of, normalized.rows)
    /\ tables.done =>
         /\ Len(tables.list) = Len(KeptTables(raw_tables))
         /\ \A k \in 1..Len(tables.list) :
              /\ PaddedTo(KeptTables(raw_tables)[k], AllRows(tables.list[k]))
              /\ \A r \in 1..Len(tables.list[k].rows) :
                   Len(tables.list[k].rows[r]) = Len(tables.list[k].headers)
              /\ tables.list[k].column_count = Len(tables.list[k].headers)
              /\ tables.list[k].row_count = Len(tables.list[k].rows)

\* a ragged table has been normalized and parsed, and its one-cell row was padded
C3_Witness ==
    /\ normalized.done
    /\ tables.done
    /\ normalized.of = <<<<"Bo">>, <<"$1,200", "", "5%">>>>
    /\ normalized.rows[1] = <<"Bo", "", "">>
    /\ raw_tables = <<normalized.of>>
    /\ tables.list[1].rows[1] = <<"Bo", "", "">>

\* C4: without a header row the headers are 'Column 1' .. 'Column N', N the
\* normalized column count, and the rows are all normalized rows; with a header
\* row the headers are the first normalized row and the rows are the others.
C4_HeadersAndRows ==
    tables.done =>
        \A k \in 1..Len(tables.list) :
            IF tables.list[k].has_header
            THEN /\ tables.list[k].headers = NormalizeTable(KeptTables(raw_tables)[k])[1]
                 /\ tables.list[k].rows = Tail(NormalizeTable(KeptTables(raw_tables)[k]))
            ELSE /\ tables.list[k].headers =
                      [i \in 1..MaxCols(KeptTables(raw_tables)[k]) |-> "Column " \o IntStr(i)]
                 /\ tables.list[k].rows = NormalizeTable(KeptTables(raw_tables)[k])

\* a parse of two tables, the first with a header row and the second without
C4_Witness ==
    /\ tables.done
    /\ Len(tables.list) = 2
    /\ tables.list[1].has_header
    /\ tables.list[1].headers = <<"Item", "Qty">>
    /\ ~tables.list[2].has_header
    /\ tables.list[2].headers = <<"Column 1", "Column 2", "Column 3">>

(***************************************************************************)
(* Properties of SchemaDetector                                            *)
(***************************************************************************)
\* the number of indicators of each catalog type that occur in the searched text
HitCounts(txt, flds) ==
    [k \in 1..Len(schemas) |-> Len(MatchedIndicators(schemas[k], SearchText(txt, flds)))]

\* catalog type k is a candidate: it has its required number of matched indicators
IsCandidate(hits, k) == hits[k] >= schemas[k].required_indicators

\* matched/total of type j is not above that of type k
NotAbove(hits, j, k) == hits[j] * Len(schemas[k].indicators) <= hits[k] * Len(schemas[j].indicators)

\* type k is a candidate of maximal score
IsBest(hits, k) ==
    IsCandidate(hits, k) /\ \A j \in 1..Len(schemas) : IsCandidate(hits, j) => NotAbove(hits, j, k)

\* min(1.0, 1.2 * matched/total) >= 0.5 for type k
AtFloor(hits, k) == 2 * 6 * hits[k] >= 5 * Len(schemas[k].indicators)

DetectIsBestAtFloor(hits) ==
    IF schema_type.some
    THEN \E k \in 1..Len(schemas) :
            schemas[k].type = schema_type.schema_type /\ IsBest(hits, k) /\ AtFloor(hits, k)
    ELSE ~\E k \in 1..Len(schemas) : IsBest(hits, k) /\ AtFloor(hits, k)

CatalogIndex(type) == CHOOSE k \in 1..Len(schemas) : schemas[k].type = type

FirstOfBest(hits, k) ==
    /\ IsBest(hits, k)
    /\ \A j \in 1..(k - 1) : ~IsBest(hits, j)

\* C7: detect_with_confidence returns, of the candidates of maximal score, the
\* one that comes first in the catalog.
C7_FirstOfTies ==
    schema_match.done /\ schema_match.some =>
        FirstOfBest(HitCounts(text, fields), CatalogIndex(schema_match.match.schema_type))

\* w2 (3 of 9) and w4 (2 of 6) tie at the maximal score, and w2 is returned
C7_Witness ==
    /\ schema_match.done
    /\ text = "Form W-2 EIN form w-4"
    /\ fields = <<>>
    /\ IsBest(HitCounts(text, fields), CatalogIndex("w2"))
    /\ IsBest(HitCounts(text, fields), CatalogIndex("w4"))
    /\ schema_match.match.schema_type = "w2"

ListsMatched(hits) ==
    /\ \A k \in 1..Len(schemas) :
         Cardinality({j \in 1..Len(schema_matches.list) : schema_matches.list[j].schema_type = schemas[k].type})
           = IF hits[k] >= 1 THEN 1 ELSE 0
    /\ \A j \in 1..Len(schema_matches.list) : \E k \in 1..Len(schemas) :
         schema_matches.list[j].schema_type = schemas[k].type

\* C8: detect_all_matches returns one SchemaMatch for every catalog type with at
\* least one matched indicator and no others, ordered by confidence
\* non-increasing, and the empty list for the empty text.
C8_AllMatchesRanked ==
    schema_matches.done =>
        IF text = "" THEN schema_matches.list = <<>>
        ELSE /\ ListsMatched(HitCounts(text, fields))
             /\ \A j \in 1..(Len(schema_matches.list) - 1) :
                  RatLeq(schema_matches.list[j + 1].confidence, schema_matches.list[j].confidence)

\* three types are listed, none of which reaches its required number of indicators
C8_Witness ==
    /\ schema_matches.done
    /\ text = "loan application"
    /\ fields = <<>>
    /\ [j \in 1..Len(schema_matches.list) |-> schema_matches.list[j].schema_type]
         = <<"financial_aid", "loan_application", "school_application">>

(***************************************************************************)
(* Properties of QAEngine                                                  *)
(***************************************************************************)
\* C9: when the retrieved context is empty, answer returns "I couldn't find
\* relevant information to answer this question." with confidence 0.0, whatever
\* intent keywords the question holds, and no intent handler runs.
C9_EmptyContextAnswer ==
    query_result.done /\ query_result.op = "answer" /\ ~query_result.raised /\ query_result.context = "" =>
        /\ query_result.answer = "I couldn't find relevant information to answer this question."
        /\ query_result.confidence.n = 0
        /\ query_result.intent = "none"

\* a who question asked of the form that has no text
C9_Witness ==
    /\ query_result.done
    /\ query_result.op = "answer"
    /\ ~query_result.raised
    /\ question = "Who signed?"
    /\ query_result.context = ""
    /\ query_result.confidence.n = 0

\* the question types with their keywords, in the order of their precedence
IntentKeywords ==
    << [intent |-> "what", words |-> {"what is", "what's", "what are"}],
       [intent |-> "quantity", words |-> {"how much", "how many", "total", "sum", "amount"}],
       [intent |-> "who", words |-> {"who", "whose"}],
       [intent |-> "when", words |-> {"when", "date"}],
       [intent |-> "where", words |-> {"where", "address", "location"}] >>

\* a keyword of the k-th type occurs in the lower-cased question
HasIntent(q, k) == \E w \in IntentKeywords[k].words : Contains(ToLower(q), w)

\* the first type with a keyword in the question, or generic
FirstIntent(q) ==
    IF \E k \in 1..Len(IntentKeywords) : HasIntent(q, k)
    THEN IntentKeywords[CHOOSE k \in 1..Len(IntentKeywords) :
                            HasIntent(q, k) /\ \A j \in 1..(k - 1) : ~HasIntent(q, j)].intent
    ELSE "generic"

\* the result comes from _generate_answer with a context that is not empty
Generated == query_result.done /\ ~query_result.raised /\ query_result.context # ""

\* C10 as stated: the handler is the first whose keyword occurs, and the generic
\* answer is "Based on the form: " plus the first 300 characters of context, with
\* confidence 0.6.
C10_GenericIsPrefixPlusContext ==
    Generated =>
        /\ query_result.intent = FirstIntent(question)
        /\ query_result.intent = "generic" =>
              /\ query_result.answer = "Based on the form: " \o Take(query_result.context, 300)
              /\ query_result.confidence = Rat(6, 10)

\* C10: the handler is the first whose keyword occurs, in the order what,
\* quantity, who, when, where; if none occurs the generic answer is "Based on the
\* form: ", the first 300 characters of context and "...", with confidence 0.6.
C10_DispatchOrder ==
    Generated =>
        /\ query_result.intent = FirstIntent(question)
        /\ query_result.intent = "generic" =>
              /\ query_result.answer = "Based on the form: " \o Take(query_result.context, 300) \o "..."
              /\ query_result.confidence = Rat(6, 10)

\* a question with no keyword of any type got the generic answer, the context and
\* the dots after the prefix
C10_Witness ==
    /\ Generated
    /\ question = "street of the applicant"
    /\ FirstIntent(question) = "generic"
    /\ query_result.intent = "generic"
    /\ Len(query_result.answer) > Len("Based on the form: ...")

(***************************************************************************)
(* Properties of the pipeline                                              *)
(***************************************************************************)
\* 0 <= r <= 1
InUnit(r) == RatLeq(Rat(0, 1), r) /\ RatLeq(r, Rat(1, 1))

\* the raw term overlap of the best field of a form for the query, before the limit
BestFieldScore(query, doc) ==
    {FieldScore(Terms(ToLower(query), 3), doc.fields[j]) : j \in 1..Len(doc.fields)}

\* C5: every confidence and score the pipeline returns lies in [0, 1]: the
\* confidence of a SchemaMatch, of a FieldMatch and of a QueryResult, the score of
\* a RetrievalResult, and the extraction confidence of a loaded form.
C5_UnitInterval ==
    /\ \A j \in 1..Len(matches.list) : matches.list[j].confidence \in 0..10
    /\ schema_match.some => InUnit(schema_match.match.confidence)
    /\ \A j \in 1..Len(schema_matches.list) : InUnit(schema_matches.list[j].confidence)
    /\ \A j \in 1..Len(retrieved.list) : InUnit(retrieved.list[j].score)
    /\ query_result.done /\ ~query_result.raised => InUnit(query_result.confidence)
    /\ document.done /\ ~document.raised => InUnit(document.document.extraction_confidence)
    /\ \A d \in 1..Len(documents) : InUnit(documents[d].extraction_confidence)

\* a query both of whose terms are in the name of a field, which counts twice:
\* the overlap is 2, and the score returned is 1
C5_Witness ==
    /\ retrieved.done
    /\ retrieved.op = "retrieve"
    /\ question = "total wages"
    /\ \E d \in 1..Len(documents) : \E s \in BestFieldScore(question, documents[d]) : RatLess(Rat(1, 1), s)
    /\ retrieved.list # <<>>
    /\ retrieved.list[1].score = Rat(1, 1)

(***************************************************************************)
(* Properties of QAEngine.cross_form_analysis                              *)
(***************************************************************************)
\* the analysis was returned
AnalysisReturned == analysis.done /\ ~analysis.raised

\* the names that are keys of the fields map of some document
AllKeys(docs) == UNION {Keys(docs[d].fields) : d \in 1..Len(docs)}

\* C11: common_fields contains a field name if and only if that exact name is a
\* key of the fields map of every document in the list, and total_documents
\* equals the number of documents.
C11_CommonFields ==
    AnalysisReturned =>
        /\ analysis.total_documents = Len(documents)
        /\ \A f \in AllKeys(documents) \cup Range(analysis.common_fields) :
             f \in Range(analysis.common_fields) <=> \A d \in 1..Len(documents) : f \in Keys(documents[d].fields)

\* two forms, a field both have and a field only the first has
C11_Witness ==
    /\ AnalysisReturned
    /\ Len(documents) = 2
    /\ "Dept" \in Keys(documents[1].fields) \ Keys(documents[2].fields)
    /\ "Annual Salary" \in Keys(documents[1].fields) \cap Keys(documents[2].fields)
    /\ "Annual Salary" \in Range(analysis.common_fields)
    /\ analysis.total_documents = 2

\* a raw number, or a Currency or Number typed value
IsNumber(val) == val.type \in {"int", "float", "currency"}

\* the numbers the documents hold for a field, in the order of the documents
Contributing(docs, f) ==
    LET holders == SelectSeq([d \in 1..Len(docs) |-> d],
                             LAMBDA d : HasKey(docs[d].fields, f) /\ IsNumber(DictGet(docs[d].fields, f)))
    IN [j \in 1..Len(holders) |-> RatOf(DictGet(docs[holders[j]].fields, f).num)]

RatEq(a, b) == a.n * b.d = b.n * a.d

\* the entry has the count, sum, average, least and greatest of the numbers
StatsAre(e, numbers) ==
    /\ e.count = Len(numbers)
    /\ RatEq(RatOf(e.sum), RatSum(numbers))
    /\ RatEq(RatMul(e.average, Rat(e.count, 1)), RatOf(e.sum))
    /\ \E j \in 1..Len(numbers) : RatEq(RatOf(e.min), numbers[j])
    /\ \E j \in 1..Len(numbers) : RatEq(RatOf(e.max), numbers[j])
    /\ \A j \in 1..Len(numbers) : RatLeq(RatOf(e.min), numbers[j]) /\ RatLeq(numbers[j], RatOf(e.max))
    /\ RatLeq(RatOf(e.min), e.average) /\ RatLeq(e.average, RatOf(e.max))

\* C12: for every field name that has a numeric-coercible value in at least two
\* documents, field_summary has an entry whose count is the number of
\* contributing documents, whose sum is the sum of their values, whose average
\* is sum/count and whose min and max are the least and greatest of them.
C12_FieldSummary ==
    AnalysisReturned =>
        \A f \in AllKeys(documents) :
            Len(Contributing(documents, f)) >= 2 =>
                \E j \in 1..Len(analysis.field_summary) :
                    /\ analysis.field_summary[j].name = f
                    /\ StatsAre(analysis.field_summary[j], Contributing(documents, f))

\* C13: only raw numbers and Currency/Number typed values contribute to an entry
\* of field_summary: a Boolean, a Date, plain text or a StringList never adds to
\* the count, sum, min or max of any field.
C13_OnlyNumbersContribute ==
    AnalysisReturned =>
        \A j \in 1..Len(analysis.field_summary) :
            StatsAre(analysis.field_summary[j], Contributing(documents, analysis.field_summary[j].name))

(***************************************************************************)
(* Properties of the fallback from the embedding provider                  *)
(***************************************************************************)
\* in the last call the provider could not be obtained (the module is missing or
\* the construction of the model failed) or its encode failed
ProviderFailed == provider.load # "ok" \/ provider.rating.raises

\* the context _retrieve_context builds from the relevant fields and the snippets
\* of the text alone, as answer keeps it
TermContext(q, doc) ==
    Take(Join(NL, Take([j \in 1..Len(RelevantFields(ToLower(q), doc.fields)) |->
                           FieldLine(RelevantFields(ToLower(q), doc.fields)[j])]
                       \o ExtractRelevantSnippets(q, doc.raw_text), 5)), 500)

\* C14: whenever the embedding provider cannot be obtained or fails,
\* semantic_retrieve returns exactly what retrieve returns for the same query,
\* document and top_k, answer still returns a QueryResult built from the
\* term-overlap strategies, and no exception reaches the caller.
C14_SilentFallback ==
    /\ retrieved.done /\ retrieved.op = "semantic_retrieve" /\ ProviderFailed =>
          /\ ~retrieved.raised
          /\ retrieved.list = Retrieve(question, documents[retrieved.of], top_k)
    /\ query_result.done /\ query_result.op = "answer" /\ ProviderFailed =>
          /\ ~query_result.raised
          /\ \E d \in 1..Len(documents) : query_result.context = TermContext(question, documents[d])

\* ---------------------------------------------------------------------------
\* C15  ContextRetriever.retrieve: the top_k best of the pooled candidates
\* ---------------------------------------------------------------------------

\* the candidates retrieve pools from the fields, the tables and the text of a document
Pooled(query, doc) ==
    RetrieveFromFields(query, doc.fields)
    \o (IF doc.tables # <<>> THEN RetrieveFromTables(query, doc.tables) ELSE <<>>)
    \o RetrieveFromText(query, doc.raw_text)

\* how many entries of q are r
CountOf(q, r) == Cardinality({i \in 1..Len(q) : q[i] = r})

\* the scores of q never go up
NonIncreasing(q) == \A i \in 1..Len(q) - 1 : ~RatLess(q[i].score, q[i + 1].score)

\* every entry of list is one of pool, and whatever of pool is missing from list
\* has no score above the score of an entry of list
BestOf(list, pool) ==
    /\ \A i \in 1..Len(list) : CountOf(list, list[i]) <= CountOf(pool, list[i])
    /\ \A j \in 1..Len(pool) :
          CountOf(list, pool[j]) < CountOf(pool, pool[j]) =>
              \A i \in 1..Len(list) : ~RatLess(list[i].score, pool[j].score)

\* C15: for top_k >= 0, retrieve returns at most top_k snippets, their scores
\* never increase along the list, and no candidate left out of the list has a
\* score strictly greater than a returned one.
C15_TopKBest ==
    retrieved.done /\ retrieved.op = "retrieve" /\ top_k >= 0 =>
        /\ Len(retrieved.list) <= top_k
        /\ NonIncreasing(retrieved.list)
        /\ BestOf(retrieved.list, Pooled(question, documents[retrieved.of]))

\* a call that leaves candidates out, returns one, and whose first pooled
\* candidate is not the best one
C15_Witness ==
    /\ retrieved.done /\ retrieved.op = "retrieve" /\ top_k >= 1
    /\ Len(retrieved.list) = top_k
    /\ Len(Pooled(question, documents[retrieved.of])) > top_k
    /\ RatLess(Pooled(question, documents[retrieved.of])[1].score, retrieved.list[1].score)

(***************************************************************************)
(* Properties of TableParser.aggregate                                     *)
(***************************************************************************)

\* the cell without its currency, percent, comma and white-space formatting
Unformatted(cell) == Remove(cell, {"$", ",", "%", " ", "\t", "\n", "\r", "\f"})

\* the first column of the table that has the name
ColumnNamed(table, column) == CHOOSE c \in 1..Len(table.headers) :
    table.headers[c] = column /\ \A b \in 1..(c - 1) : table.headers[b] # column

\* the numbers of the cells of column c that parse as a number, in row order
NumericCells(table, c) ==
    [j \in 1..Len(SelectSeq(table.rows, LAMBDA row : PyFloat(Unformatted(row[c])).ok)) |->
        RatOf(PyFloat(Unformatted(SelectSeq(table.rows, LAMBDA row : PyFloat(Unformatted(row[c])).ok)[j][c])).v)]

\* value is the aggregate of the numbers
IsAggregate(value, operation, numbers) ==
    CASE operation = "sum" -> RatEq(value, RatSum(numbers))
      [] operation = "avg" -> RatEq(RatMul(value, Rat(Len(numbers), 1)), RatSum(numbers))
      [] operation = "min" -> /\ \E j \in 1..Len(numbers) : RatEq(value, numbers[j])
                              /\ \A j \in 1..Len(numbers) : RatLeq(value, numbers[j])
      [] operation = "max" -> /\ \E j \in 1..Len(numbers) : RatEq(value, numbers[j])
                              /\ \A j \in 1..Len(numbers) : RatLeq(numbers[j], value)
      [] operation = "count" -> RatEq(value, Rat(Len(numbers), 1))

\* the result is None in the three cases, and the aggregate of the numeric cells otherwise
AggregateIs(result, table, column, operation) ==
    IF column \notin Range(table.headers) THEN ~result.some
    ELSE IF NumericCells(table, ColumnNamed(table, column)) = <<>> THEN ~result.some
    ELSE IF operation \notin {"sum", "avg", "min", "max", "count"} THEN ~result.some
    ELSE /\ result.some
         /\ IsAggregate(result.value, operation, NumericCells(table, ColumnNamed(table, column)))

\* C16: aggregate returns None, without raising and without modifying the
\* table, when the column is not among the headers, when no cell of the column
\* parses as a number once its currency, percent, comma and white-space
\* formatting is stripped, or when the operation is not one of sum, avg, min,
\* max, count; otherwise it returns that aggregate of exactly the numeric cells
\* of the column.
C16_Aggregate ==
    aggregated.done =>
        /\ ~aggregated.raised
        /\ tables.list = TableParse(raw_tables)
        /\ AggregateIs(aggregated.result, tables.list[aggregated.of], aggregated.column, aggregated.operation)

\* the average of a column with a formatted amount, a plain number and a cell
\* that is no number
C16_Witness ==
    /\ aggregated.done
    /\ aggregated.operation = "avg"
    /\ aggregated.column = "Amount"
    /\ aggregated.result.some
    /\ tables.list[aggregated.of].has_header
    /\ \E r \in 1..Len(tables.list[aggregated.of].rows) : tables.list[aggregated.of].rows[r][2] = "$1,200"
    /\ \E r \in 1..Len(tables.list[aggregated.of].rows) : tables.list[aggregated.of].rows[r][2] = ""
    /\ RatEq(aggregated.result.value, Rat(1200, 1))

\* None for a column that has cells but no number among them
C16_NoneWitness ==
    /\ aggregated.done
    /\ aggregated.operation = "sum"
    /\ aggregated.column = "Item"
    /\ ~aggregated.result.some
    /\ tables.list[aggregated.of].has_header

(***************************************************************************)
(* Properties of the order of the writes of FieldParser.parse              *)
(***************************************************************************)

\* the match is accepted: its value is not too long, its name is not generic, neither is empty
Accepted(name, value) ==
    /\ Len(value) <= MaxValueLen
    /\ ToLower(name) \notin GenericNames
    /\ name # ""
    /\ value # ""

\* the writes of the accepted matches among pairs, in match order
WritesOf(pairs) ==
    FlatSeq([j \in 1..Len(pairs) |->
                IF Accepted(NormalizeFieldName(pairs[j][1]), Strip(pairs[j][2]))
                THEN <<[name |-> NormalizeFieldName(pairs[j][1]), value |-> ProcessValue(Strip(pairs[j][2]))]>>
                ELSE <<>>],
            1, Len(pairs))

\* every write of parse: the patterns in list order, then the special
\* extractors, then the checkbox aggregates
AllWrites(s) ==
    FlatSeq([p \in 1..Len(patterns) |-> WritesOf(FindAll2(patterns[p], s))], 1, Len(patterns))
    \o ExtractSpecialFields(s) \o ExtractCheckboxes(s)

\* d has the names written, each with the value of its last write
HoldsLastWritten(d, writes) ==
    /\ Keys(d) = {writes[j].name : j \in 1..Len(writes)}
    /\ \A j \in 1..Len(d) : d[j].value = writes[LastOf(writes, d[j].name)].value
    /\ \A i, j \in 1..Len(d) : i # j => d[i].name # d[j].name

C17_RejectedWitness ==
    /\ parsed.done /\ ~parsed.raised
    /\ text = "Name : Bo\nName:  "
    /\ Len(parsed.fields) = 1
    /\ DictGet(parsed.fields, "Name") = VStr("Bo")

(***************************************************************************)
(* Properties of FieldParser._process_value                                *)
(***************************************************************************)

\* the steps of the cascade, in their order, with the tags they give
ValueSteps == <<"currency", "date", "bool", "number", "str">>

\* the amount of a value: what is left of it when all but digits and dots are dropped
AmountText(value) == Keep(value, Digits \cup {"."})

\* the value has the form the integer step takes: digits, or a minus sign and digits
IntegerForm(value) ==
    \/ IsDigit(value)
    \/ value # "" /\ Head(value) = "-" /\ IsDigit(Tail(value))

\* the step succeeds on the stripped value
StepSucceeds(step, value) ==
    CASE step = "currency" -> Matches(currency_pattern, value) /\ PyFloat(AmountText(value)).ok
      [] step = "date" -> \E j \in 1..Len(date_patterns) : Matches(date_patterns[j], value)
      [] step = "bool" -> ToLower(value) \in {"yes", "no", "true", "false", "y", "n"}
      [] step = "number" -> IF Contains(value, ".") THEN PyFloat(Remove(value, {","})).ok ELSE IntegerForm(value)
      [] step = "str" -> TRUE

\* the first step that succeeds
FirstStep(value) ==
    ValueSteps[CHOOSE j \in 1..Len(ValueSteps) :
                  StepSucceeds(ValueSteps[j], value) /\ \A i \in 1..(j - 1) : ~StepSucceeds(ValueSteps[i], value)]

\* the tag of the step, for a number the one of its form
TagOf(step, value) ==
    IF step = "number" THEN (IF Contains(value, ".") THEN "float" ELSE "int") ELSE step

\* C18: _process_value gives every value exactly one type tag, that of the
\* first step that succeeds in the order currency, date, boolean token,
\* integer/float, plain string; a value that matches the currency pattern but
\* has no parsable amount goes on to the later steps, and nothing is raised.
C18_FirstStepTags ==
    processed.done =>
        /\ processed.value.type # "raise"
        /\ processed.value.type = TagOf(FirstStep(Strip(text)), Strip(text))

\* a value that matches the currency pattern and has no amount: it is left as text
C18_Witness ==
    /\ processed.done
    /\ Matches(currency_pattern, text)
    /\ ~PyFloat(AmountText(text)).ok
    /\ processed.value = VStr(text)

\* a value taken by the date step although the boolean and number steps follow
C18_DateWitness ==
    /\ processed.done
    /\ text = "1/2/24 at noon"
    /\ processed.value = VDate(text)

\* \d{1,3}(?:,\d{3})+(?:\.\d+)?$ : a number written with thousands-separating commas
CommaNumber ==
    << Cls(Digits, 1, 3), Lit(","), Cls(Digits, 3, 3), GrpStar(<< <<Lit(","), Cls(Digits, 3, 3)>> >>),
       Grp(<< <<Lit("."), Plus(Digits)>> >>, 0, 1), EndS >>

\* C19: a value that is an integer or decimal number written with
\* thousands-separating commas and no currency marker, such as '1,234' or
\* '1,234.5', is typed as a number whose value is the number with the commas
\* stripped, not as plain text.
C19_CommaNumbers ==
    processed.done /\ Matches(CommaNumber, Strip(text)) =>
        /\ processed.value.type \in {"int", "float"}
        /\ processed.value.num = PyFloat(Remove(Strip(text), {","})).v

\* the decimal number with commas is typed as a number
C19_DecimalWitness ==
    /\ processed.done
    /\ text = "1,234.5"
    /\ processed.value = VFloat(NormFloat(12345, -1))

\* the integer with commas is left as text
C19_IntegerIsText ==
    /\ processed.done
    /\ text = "1,234"
    /\ processed.value = VStr("1,234")

(***************************************************************************)
(* Properties of FieldParser.parse_with_confidence                         *)
(***************************************************************************)

\* every label/value match of the patterns, in pattern order and match order
AllFieldMatches(s) ==
    FlatSeq([p \in 1..Len(patterns) |-> FieldMatches(patterns[p], s, FindIter(patterns[p].items, s, 0))],
            1, Len(patterns))

\* 0.5 + 0.1 + 0.1 + 0.2 - 0.2 with the terms that apply, clamped to [0, 1], in tenths
ConfidenceFormula(name, value) ==
    Max2(0, Min2(10,
        5 + (IF 2 < Len(name) /\ Len(name) < 50 THEN 1 ELSE 0)
          + (IF 1 < Len(value) /\ Len(value) < 200 THEN 1 ELSE 0)
          + (IF \E w \in CommonFieldWords : Contains(ToLower(name), w) THEN 2 ELSE 0)
          - (IF Len(value) > 200 THEN 2 ELSE 0)))

\* list holds exactly the matches of all whose confidence is at least floor
KeepsFrom(list, all, floor) ==
    /\ \A j \in 1..Len(all) : all[j].confidence >= floor => CountOf(list, all[j]) = CountOf(all, all[j])
    /\ \A j \in 1..Len(list) : list[j].confidence >= floor /\ CountOf(all, list[j]) = CountOf(list, list[j])

\* the confidences are those of the formula and never go up along the list
RankedByFormula(list) ==
    /\ \A j \in 1..Len(list) : list[j].confidence = ConfidenceFormula(list[j].name, list[j].value)
    /\ \A j \in 1..(Len(list) - 1) : list[j].confidence >= list[j + 1].confidence

\* C20: parse_with_confidence returns exactly the label/value matches whose
\* confidence is not below 0.3, a match of confidence exactly 0.3 included,
\* ordered by confidence non-increasing, the confidence being 0.5, plus 0.1 for
\* a name of 3 to 49 characters, plus 0.1 for a value of 2 to 199 characters,
\* plus 0.2 for a name with a common field word, minus 0.2 for a value of more
\* than 200 characters, clamped to [0, 1].
C20_KeepsThreshold ==
    matches.done =>
        /\ KeepsFrom(matches.list, AllFieldMatches(text), 3)
        /\ RankedByFormula(matches.list)

\* the match of confidence exactly 0.3 is not returned
C20_ThresholdDropped ==
    /\ matches.done
    /\ text = "Ab: " \o Filler(201)
    /\ Len(AllFieldMatches(text)) = 1
    /\ AllFieldMatches(text)[1].confidence = 3
    /\ matches.list = <<>>

(***************************************************************************)
(* Properties of TableParser._detect_headers                               *)
(***************************************************************************)

\* the signals that hold of a normalized table; the second needs a second
\* row, the fourth a third
SignalsHolding(table) ==
    {1 : x \in {y \in {1} : RatLess(Rat(1, 2), TextRatio(table[1]))}}
    \cup {2 : x \in {y \in {1} : Len(table) >= 2 /\ RatLess(TextRatio(table[1]), NumericRatio(table[2]))}}
    \cup {3 : x \in {y \in {1} : HasCommonHeader(table[1])}}
    \cup {4 : x \in {y \in {1} : Len(table) >= 3
                                  /\ RatLess(NumericRatio(table[1]), RatSub(AvgNumeric(table), Rat(1, 5)))}}

\* C21: the first row of a normalized table is marked as header if and only
\* if at least two of the four signals hold; a table of a single row is marked
\* whenever two of the signals of that row hold.
C21_HeaderIffTwoSignals ==
    tables.done =>
        \A k \in 1..Len(tables.list) :
            tables.list[k].has_header <=>
                Cardinality(SignalsHolding(NormalizeTable(KeptTables(raw_tables)[k]))) >= 2

\* a table of the single row 'Item', 'Qty': mostly text, with a common header
\* word, and not marked
C21_SingleRowUnmarked ==
    /\ tables.done
    /\ raw_tables = << << <<" Item ", "Qty">> >> >>
    /\ SignalsHolding(NormalizeTable(raw_tables[1])) = {1, 3}
    /\ ~tables.list[1].has_header

(***************************************************************************)
(* Properties of QAEngine._answer_what_question                            *)
(***************************************************************************)

\* the question asks what something is
WhatIntent(q) == \E lead \in {"what is", "what's", "what are"} : Contains(ToLower(q), lead)

\* the positions of the fields whose lower-cased name holds the subject or is held by it
SubjectFields(subject, flds) ==
    {j \in 1..Len(flds) : Contains(ToLower(flds[j].name), subject) \/ Contains(subject, ToLower(flds[j].name))}

\* the positions of the lines of the context that have a colon
ColonLines(context) == {j \in 1..Len(SplitOn(context, NL)) : Contains(SplitOn(context, NL)[j], ":")}

\* the smallest of a set of positions that is not empty
Least(S) == CHOOSE j \in S : \A i \in S : j <= i

\* the answer names the field and gives its value
ReportsField(answer, f) == answer = "The " \o f.name \o " is: " \o PyStr(f.value)

\* the result is the one the three cases give for this subject, these fields and this context
WhatCases(result, subject, flds, context) ==
    IF subject # "" /\ SubjectFields(subject, flds) # {}
    THEN /\ ReportsField(result.answer, flds[Least(SubjectFields(subject, flds))])
         /\ RatEq(result.confidence, Rat(9, 10))
    ELSE IF ColonLines(context) # {}
    THEN /\ result.answer = Strip(SplitOn(context, NL)[Least(ColonLines(context))])
         /\ RatEq(result.confidence, Rat(7, 10))
    ELSE /\ result.answer = Take(context, 200)
         /\ RatEq(result.confidence, Rat(5, 10))

\* answer returned for a what question whose context is not empty and is kept whole in the result
WhatAnswered ==
    /\ query_result.done /\ query_result.op = "answer" /\ ~query_result.raised
    /\ WhatIntent(query_result.question)
    /\ query_result.context # "" /\ Len(query_result.context) < 500

\* C22: for a what question answered against one document with a context that
\* is not empty, a subject held by a lower-cased field name or holding one gives
\* the value of the first such field at confidence 0.9; otherwise the answer is
\* the first context line with a colon at 0.7; otherwise the first 200
\* characters of the context at 0.5.
C22_WhatAnswer ==
    WhatAnswered =>
        WhatCases(query_result, Subject(ToLower(query_result.question)),
                  documents[query_result.of].fields, query_result.context)

\* the name of a field is held by the subject, and the field is reported
C22_Witness ==
    /\ WhatAnswered
    /\ query_result.question = "what's the hire date today"
    /\ Subject(ToLower(query_result.question)) = "hire date today"
    /\ query_result.answer = "The Hire Date is: {'type': 'date', 'value': '01/02/2024'}"
    /\ RatEq(query_result.confidence, Rat(9, 10))

\* no field is named and the context has a line with a colon
C22_LineWitness ==
    /\ WhatAnswered
    /\ SubjectFields(Subject(ToLower(query_result.question)), documents[query_result.of].fields) = {}
    /\ RatEq(query_result.confidence, Rat(7, 10))

\* no field is named and no line of the context has a colon
C22_ContextWitness ==
    /\ WhatAnswered
    /\ ColonLines(query_result.context) = {}
    /\ query_result.answer = query_result.context
    /\ RatEq(query_result.confidence, Rat(5, 10))

(***************************************************************************)
(* Properties of QAEngine._answer_quantity_question                        *)
(***************************************************************************)

\* the question asks for a quantity and is not taken as a what question before
QuantityIntent(q) ==
    /\ ~WhatIntent(q)
    /\ \E w \in {"how much", "how many", "total", "sum", "amount"} : Contains(ToLower(q), w)

\* the text has a digit: it holds a number that can be read
HasNumber(s) == CharsOf(s) \cap Digits # {}

\* the positions of the lines of the context that have the word total, in any case
TotalLines(context) ==
    {j \in 1..Len(SplitOn(context, NL)) : Contains(ToLower(SplitOn(context, NL)[j]), "total")}

\* the numbers read from the numeric and currency tokens of the context
NumbersOf(context) ==
    {f.v : f \in {g \in {PyFloat(Remove(t, {"$", ","})) : t \in Range(FindAll0(number_pattern, context))} : g.ok}}

\* v is the largest of the numbers
LargestOf(v, numbers) == v \in numbers /\ \A w \in numbers : ~FloatLess(v, w)

\* the result is the one the cases give for this question and this context
QuantityCases(result, q, context) ==
    IF ~HasNumber(context)
    THEN /\ result.answer = "Based on the form: " \o Take(context, 200)
         /\ RatEq(result.confidence, Rat(5, 10))
    ELSE IF Contains(ToLower(q), "total") /\ TotalLines(context) # {}
    THEN /\ result.answer = Strip(SplitOn(context, NL)[Least(TotalLines(context))])
         /\ RatEq(result.confidence, Rat(85, 100))
    ELSE /\ \E v \in NumbersOf(context) :
               LargestOf(v, NumbersOf(context)) /\ result.answer = "The amount is: $" \o Money(v)
         /\ RatEq(result.confidence, Rat(7, 10))

\* answer returned for a quantity question whose context is not empty and is kept whole in the result
QuantityAnswered ==
    /\ query_result.done /\ query_result.op = "answer" /\ ~query_result.raised
    /\ QuantityIntent(query_result.question)
    /\ query_result.context # "" /\ Len(query_result.context) < 500

\* C23: for a quantity question, a question that mentions total and a context
\* line that has total give that line at confidence 0.85; otherwise the
\* largest number of the context is reported as currency at 0.7; a context
\* without a number gives the generic fallback at 0.5, so 0.85 and 0.7 are
\* never returned for a context that holds no number that can be read.
C23_QuantityAnswer ==
    QuantityAnswered => QuantityCases(query_result, query_result.question, query_result.context)

\* a line with total is returned at 0.85 for a context that has a comma and no number
C23_TotalWithoutNumber ==
    /\ QuantityAnswered
    /\ query_result.context = "Payment total is due, soon"
    /\ ~HasNumber(query_result.context)
    /\ query_result.answer = "Payment total is due, soon"
    /\ RatEq(query_result.confidence, Rat(85, 100))

\* the largest number of a context with numbers is reported at 0.7
C23_LargestWitness ==
    /\ QuantityAnswered
    /\ query_result.context = "We owe 12 and 1,300.5 in rent"
    /\ query_result.answer = "The amount is: $1,300.00"
    /\ RatEq(query_result.confidence, Rat(7, 10))

\* whenever the context holds a number the answer is the one of the cases
C23_WithNumber ==
    QuantityAnswered /\ HasNumber(query_result.context) =>
        QuantityCases(query_result, query_result.question, query_result.context)

(***************************************************************************)
(* Properties of ContextRetriever.retrieve_multi                           *)
(***************************************************************************)

\* the source of r is labelled with the path of doc
LabelledWith(r, doc) == Take(r.source, Len(doc.file_path) + 2) = doc.file_path \o ": "

\* r without the label of doc
Unlabelled(r, doc) == [r EXCEPT !.source = SubSeq(@, Len(doc.file_path) + 3, Len(@))]

\* r is a snippet of doc for the query, labelled with the path of doc
CameFrom(r, query, doc) ==
    LabelledWith(r, doc) /\ \E j \in 1..Len(Pooled(query, doc)) : Pooled(query, doc)[j] = Unlabelled(r, doc)

\* how many entries of list are labelled with the path of doc
TakenFrom(list, doc) == Cardinality({j \in 1..Len(list) : LabelledWith(list[j], doc)})

\* C24: for every query, list of n >= 0 documents and top_k >= 0, retrieve_multi
\* returns at most top_k snippets whose scores never go up, at most
\* floor(top_k / n) + 1 of them from any one document, each labelled with the
\* path of the document it came from, and it returns the empty list, without
\* raising, for an empty list of documents.
C24_RetrieveMulti ==
    retrieved.done /\ retrieved.op = "retrieve_multi" =>
        /\ ~retrieved.raised
        /\ Len(retrieved.list) <= top_k
        /\ NonIncreasing(retrieved.list)
        /\ \A d \in 1..Len(documents) :
              TakenFrom(retrieved.list, documents[d]) <= top_k \div Len(documents) + 1
        /\ \A j \in 1..Len(retrieved.list) :
              \E d \in 1..Len(documents) : CameFrom(retrieved.list[j], question, documents[d])
        /\ documents = <<>> => retrieved.list = <<>>

\* two documents and top_k 5: the first has four snippets, of which three are taken
C24_Witness ==
    /\ retrieved.done /\ retrieved.op = "retrieve_multi"
    /\ Len(documents) = 2 /\ top_k = 5
    /\ Len(Pooled(question, documents[1])) = 4
    /\ TakenFrom(retrieved.list, documents[1]) = 3
    /\ TakenFrom(retrieved.list, documents[2]) >= 1

\* no documents: the empty list
C24_EmptyWitness ==
    /\ retrieved.done /\ retrieved.op = "retrieve_multi" /\ ~retrieved.raised
    /\ documents = <<>> /\ top_k = 5
    /\ retrieved.list = <<>>

(***************************************************************************)
(* The documents of a query                                                *)
(***************************************************************************)

\* b has the fields, tables, text and schema type of a
SameContent(a, b) ==
    /\ b.fields = a.fields
    /\ b.tables = a.tables
    /\ b.raw_text = a.raw_text
    /\ b.schema_type = a.schema_type

C25_AnalysisWitness == analysis.done /\ Len(documents) = 3 /\ documents[1].fields # <<>>

\* retrieve_multi has labelled its results, and the documents are not labelled
C25_RetrieverWitness ==
    /\ retrieved.done /\ retrieved.op = "retrieve_multi" /\ retrieved.list # <<>>
    /\ documents[1].fields # <<>>

(***************************************************************************)
(* Properties of chunk_text                                                *)
(***************************************************************************)

\* a pass of the loop moves start forward
StartIncreases == chunker.pc = "loop" /\ chunker'.chunks # chunker.chunks => chunker'.start > chunker.start

\* no chunk is longer than the chunk size
ChunksFit == \A j \in 1..Len(chunker.chunks) : Len(chunker.chunks[j]) <= chunker.chunk_size

\* C26: for every text, chunk_size > 0 and overlap with 0 <= overlap <
\* chunk_size, chunk_text terminates, the start position strictly increases
\* from one chunk to the next, and every returned chunk has at most chunk_size
\* characters.
C26_ChunkTextTerminates ==
    /\ <>(chunker.pc = "returned")
    /\ [][StartIncreases]_vars
    /\ [](chunker.pc = "returned" => ChunksFit)

\* the pass that moved end behind a full stop has left start where it was
C26_Stalled ==
    /\ chunker.pc = "loop" /\ chunker.chunk_size = 11 /\ chunker.overlap = 10
    /\ text = "xxxxxxxxx.xx"
    /\ chunker.chunks = <<"xxxxxxxxx.", "xxxxxxxxx.">>
    /\ chunker.start = 0

\* a call with the same chunk size and a smaller overlap has returned
C26_Returned ==
    /\ chunker.pc = "returned" /\ chunker.chunk_size = 11 /\ chunker.overlap = 4
    /\ text = "xxxxxxxxx.xx"
    /\ chunker.chunks = <<"xxxxxxxxx.", "xxx.xx">>

\* start moves forward whenever the overlap is at most 4
C26_SmallOverlap == [][chunker.overlap <= 4 => StartIncreases]_vars

\* and such a call returns
C26_SmallOverlapReturns == (chunker.overlap <= 4) ~> (chunker.pc = "returned")

(***************************************************************************)
(* detect and detect_all_matches                                           *)
(***************************************************************************)

\* detect and detect_all_matches have both been called on the text and the fields
BothDetected == schema_type.done /\ schema_matches.done

\* C27: for every text and field set, a schema type returned by detect is the
\* schema type of the first element of detect_all_matches for the same inputs.
C27_DetectIsFirstOfAll ==
    BothDetected /\ schema_type.some =>
        /\ schema_matches.list # <<>>
        /\ schema_matches.list[1].schema_type = schema_type.schema_type

\* w4 has all of its indicators in the text and w2 eight of nine: detect returns w4,
\* both confidences are capped at 1, and w2 is the first of detect_all_matches
C27_CappedTie ==
    /\ BothDetected /\ schema_type.some
    /\ schema_type.schema_type = "w4"
    /\ Len(schema_matches.list) >= 2
    /\ schema_matches.list[1].schema_type = "w2"
    /\ schema_matches.list[2].schema_type = "w4"
    /\ RatEq(schema_matches.list[1].confidence, Rat(1, 1))
    /\ RatEq(schema_matches.list[2].confidence, Rat(1, 1))

\* whenever the confidence of the first of detect_all_matches is below 1, detect returns its type
C27_BelowCap ==
    BothDetected /\ schema_type.some /\ schema_matches.list # <<>>
    /\ RatLess(schema_matches.list[1].confidence, Rat(1, 1)) =>
        schema_matches.list[1].schema_type = schema_type.schema_type

\* detect has returned the type of the first of detect_all_matches
C27_Agree ==
    /\ BothDetected /\ schema_type.some /\ schema_matches.list # <<>>
    /\ schema_matches.list[1].schema_type = schema_type.schema_type
    /\ Len(schema_matches.list) >= 2

(***************************************************************************)
(* The source fields of an answer                                          *)
(***************************************************************************)

\* the "name: value" lines of the fields of doc that are called name
LinesOf(doc, name) ==
    {doc.fields[j].name \o ": " \o PyStr(doc.fields[j].value) : j \in {i \in 1..Len(doc.fields) : doc.fields[i].name = name}}

\* answer has returned a result that keeps its context whole
AnswerKept ==
    /\ query_result.done /\ query_result.op = "answer" /\ ~query_result.raised
    /\ Len(query_result.context) < 500

\* C28: in the QueryResult returned by answer, every name of source_fields has
\* its "name: value" line in the context the answer was generated from: a field
\* is never reported as a source when its line was cut with the context parts
\* beyond top_k.
C28_SourcesInContext ==
    AnswerKept =>
        \A j \in 1..Len(query_result.source_fields) :
            \E line \in LinesOf(documents[query_result.of], query_result.source_fields[j]) :
                Contains(query_result.context, line)

\* six fields are relevant and five lines are kept: Total F is a source without its line
C28_CutSource ==
    /\ AnswerKept
    /\ query_result.source_fields = <<"Total A", "Total B", "Total C", "Total D", "Total E", "Total F">>
    /\ query_result.context = "Total A: 1\nTotal B: 2\nTotal C: 3\nTotal D: 4\nTotal E: 5"

\* whenever at most five fields are sources, each has its line in the context
C28_UpToTopK ==
    AnswerKept /\ Len(query_result.source_fields) <= engine.top_k =>
        \A j \in 1..Len(query_result.source_fields) :
            \E line \in LinesOf(documents[query_result.of], query_result.source_fields[j]) :
                Contains(query_result.context, line)

\* a field is a source and its line is in the context
C28_Kept ==
    /\ AnswerKept
    /\ query_result.source_fields = <<"Grand Total">>
    /\ Contains(query_result.context, "Grand Total: ")

(***************************************************************************)
(* Properties of QAEngine.answer_multiple                                  *)
(***************************************************************************)

\* the confidences of the answers that are not taken from a field
ContextConfidences == {Rat(0, 1), Rat(5, 10), Rat(6, 10), Rat(7, 10), Rat(8, 10), Rat(85, 100)}

\* answer_multiple has returned a result
MultiAnswered == query_result.done /\ query_result.op = "answer_multiple" /\ ~query_result.raised

\* C29: answer_multiple never answers from a field-name match: the handlers
\* are given the list of documents, which has no fields, so its confidence is
\* one of 0.0, 0.5, 0.6, 0.7, 0.8, 0.85 and never 0.9, even when a document has
\* a field that the answer to the same question on that document alone would
\* return at 0.9.
C29_MultiNeverFromField ==
    MultiAnswered =>
        /\ \E c \in ContextConfidences : RatEq(query_result.confidence, c)
        /\ ~RatEq(query_result.confidence, Rat(9, 10))
        /\ \A d \in 1..Len(documents) : \A j \in 1..Len(documents[d].fields) :
              ~ReportsField(query_result.answer, documents[d].fields[j])

\* the first document has the field the question names, and the answer is a context line at 0.7
C29_Witness ==
    /\ MultiAnswered
    /\ query_result.question = "What is the employee name?"
    /\ Len(documents) >= 1
    /\ SubjectFields(Subject(ToLower(query_result.question)), documents[1].fields) # {}
    /\ query_result.answer = "[w2.txt]: Employee Name: Ann Lee"
    /\ RatEq(query_result.confidence, Rat(7, 10))

(***************************************************************************)
(* The embedder of a QAEngine over a sequence of calls                     *)
(***************************************************************************)

\* the call left the engine as it was and raised nothing: no load of the embedder was tried
\* (a load that is tried sets _embedder, clears _use_embeddings or raises)
NoLoadTried == engine' = engine /\ ~query_result'.raised

\* the call was answer on a document, and its context has only field lines and text snippets
OnlyTermContext ==
    query_result'.op = "answer" =>
        query_result'.context = TermContext(question, documents[query_result'.of])

\* the number of field context parts _retrieve_context finds in the document of the call
FieldParts == Len(RelevantFields(ToLower(question), documents[query_result'.of].fields))

\* what a call of answer or answer_multiple does to the engine
EmbedderStep ==
    /\ ~engine.use_embeddings => ~engine'.use_embeddings /\ NoLoadTried /\ OnlyTermContext
    /\ engine.embedder # "None" => engine'.embedder = engine.embedder
    /\ query_result'.op = "answer" /\ FieldParts >= 3 => NoLoadTried /\ OnlyTermContext

\* C30: over any sequence of answer and answer_multiple calls on one QAEngine,
\* _use_embeddings, once False, never becomes True again and no load of the
\* embedder is tried afterwards; _embedder, once not None, is never replaced or
\* reset; and a call attempts the semantic search only if _use_embeddings is
\* True and fewer than 3 field context parts were found.
C30_EmbedderMonotone == [][EmbedderStep]_vars

\* a call has been made on an engine whose _use_embeddings an earlier call had cleared
C30_Witness ==
    /\ query_result.done /\ ~query_result.raised
    /\ ~engine.use_embeddings /\ engine.embedder = "None"
    /\ provider.load = "ok"

\* a new engine has answered on a document with six relevant fields and has not loaded its embedder
C30_ManyFields ==
    /\ query_result.done /\ query_result.op = "answer" /\ ~query_result.raised
    /\ engine.use_embeddings /\ engine.embedder = "None"
    /\ Len(query_result.source_fields) = 6

====
